---------------------------- MODULE Spec2Model ----------------------------
(***************************************************************************)
(* Model of the papert-claw server core:                                   *)
(*   - ChannelQueue / QueueManager      (packages/server/src/queue.ts)     *)
(*   - the Slack DM / channel-mention handlers that feed the queues        *)
(*   - SchedulerRoutes                  (agent/scheduler-routes.ts)        *)
(*   - SchedulerBridge                  (agent/scheduler-bridge.ts)        *)
(*   - the tool-output queue file and UploadCollector (agent/runner.ts,    *)
(*     agent/upload-tool.ts)                                               *)
(*   - runAgent: session persistence, the upload-selection policy and its  *)
(*     fallbacks (agent/upload-tool.ts)                                    *)
(***************************************************************************)
EXTENDS Integers, Sequences, FiniteSets, TLC

(***************************************************************************)
(* Bounds of the model.                                                    *)
(***************************************************************************)
\* Total number of work items ever enqueued (over all channels).
MaxItems == 3
\* Cap on ChannelQueue objects built by stand-alone getQueue calls; the
\* code builds one per channel id, so the cap never binds on it.
MaxInst == 3

\* Channel identifiers seen on inbound messages (message.channelId).
Channels == {"c1", "c2"}
\* Slack users sending the messages (message.userId).
Users == {"u1", "u2"}

\* A Map is a function whose domain holds the keys that are set.
MapSet(m, k, v) == [x \in DOMAIN m \cup {k} |-> IF x = k THEN v ELSE m[x]]

MapDelete(m, k) == [x \in DOMAIN m \ {k} |-> m[x]]

EmptyMap == [x \in {} |-> 0]

\* Identities of ChannelQueue objects (1 is the first one constructed).
Inst == 1 .. (MaxInst + MaxItems)
ItemIds == 1 .. MaxItems

\* How a work item behaves once called:
\*   resolve - its promise resolves        reject - its promise rejects
\*   throw   - it throws synchronously     hang   - its promise never settles
Kinds == {"resolve", "reject", "throw", "hang"}

VARIABLES
    queues,      \* QueueManager.queues : Map channelId -> ChannelQueue
    nInstances,  \* number of ChannelQueue objects constructed so far
    queue,       \* ChannelQueue.queue of every instance: Seq of work-item ids
    processing,  \* ChannelQueue.processing of every instance
    work,        \* the work items enqueued so far, by id (enqueue order)
    started,     \* ids of the work items called so far, in call order
    settled,     \* ids of the work items settled so far, in settle order
    errors,      \* number of console.error calls made by processNext
    inRun,       \* handler items whose runAgent call is in flight
    runOver,     \* handler items whose runAgent call has returned or
                 \* rejected and whose closure has not settled yet
    returned,    \* per channel id, the instances getQueue has returned
    latestRoute, \* SchedulerRoutes.latestRoute
    routesByJobId, \* SchedulerRoutes.routesByJobId : Map jobId -> route
    calls,       \* the SchedulerRoutes calls made so far, in order
    workspaces,  \* SchedulerBridge.workspaces : Map workspaceDir -> state,
                 \* the state named by the session that created it
    sess,        \* the external scheduler sessions started so far (query()),
                 \* each with the ensureWorkspace call and the state object
                 \* that belong to it
    stream,      \* per session, the ids of the messages emitted and not yet
                 \* taken by the consumer loop
    events,      \* every message emitted so far, by id
    handled,     \* what handleMessage saw for each message it was given
    completed,   \* ids of the messages whose handleMessage has returned
    deliveries,  \* the onDelivery calls made so far
    blog,        \* logger.warn / logger.error calls of the bridge
    stopAllPc,   \* where the stopAll call is: idle, closing, done
    stopping,    \* the sessions whose stop() stopAll has called
    qfile,       \* the tool-output queue file of one workspace
    prod,        \* per producer, the queue it has loaded and not yet saved
    run,         \* the runAgent calls on that workspace, in call order
    quiet,       \* no tool has opened or written the file since a reset opened it
    nwrites,     \* number of entries written to the file so far
    drains,      \* per runAgent call, what its drain returned
    pending,     \* UploadCollector.pending
    pendingMessages, \* UploadCollector.pendingMessages
    cdrains,     \* results of UploadCollector.drain / drainMessages so far
    persisted,   \* the session id stored for the workspace ("" when none)
    srun,        \* the runAgent calls on the workspace, their session part
    slog,        \* what each of these calls read, was told and stored
    pcall,       \* the latest enforceUploadPolicy call and what it returned
    fin,         \* the latest run's selection of uploads and messages
    hitem,       \* per work item of a Slack handler, where it is in the closure
    ecall,       \* the latest applyLlmEnvFromSettings call: process.env
                 \* before and after it
    arun,        \* a runAgent call: its assistant events and the onMessage
                 \* calls made for them
    fcall        \* the latest formatFinishedEventText call: the event and
                 \* the text returned

qvars == <<queues, nInstances, queue, processing, work, started, settled,
           errors, inRun, runOver, returned>>
rvars == <<latestRoute, routesByJobId, calls>>
bvars == <<workspaces, sess, stream, events, handled, completed, deliveries,
           blog, stopAllPc, stopping>>
tvars == <<qfile, prod, run, quiet, nwrites, drains, pending,
           pendingMessages, cdrains>>
svars == <<persisted, srun, slog, pcall, fin>>
hvars == <<hitem, ecall, arun>>
avars == <<svars, hvars, fcall>>
vars == <<qvars, rvars, bvars, tvars, avars>>

(***************************************************************************)
(* Helpers on sequences.                                                   *)
(***************************************************************************)
Range(s) == {s[k] : k \in 1 .. Len(s)}

Last(s) == s[Len(s)]

Front(s) == SubSeq(s, 1, Len(s) - 1)

\* The ids of s that satisfy Keep, in the order of s.
RECURSIVE Restrict(_, _)
Restrict(s, keep) ==
    IF s = <<>> THEN <<>>
    ELSE IF Head(s) \in keep THEN <<Head(s)>> \o Restrict(Tail(s), keep)
         ELSE Restrict(Tail(s), keep)

IsPrefix(s, t) == Len(s) <= Len(t) /\ SubSeq(t, 1, Len(s)) = s

(***************************************************************************)
(* QueueManager.getQueue                                                   *)
(***************************************************************************)
\* A variant that constructs a queue on every call.
getQueueAlwaysNew(channelId) ==
    [q |-> nInstances + 1,
     queues |-> MapSet(queues, channelId, nInstances + 1),
     n |-> nInstances + 1]

\* A variant that hands every channel id the same queue.
getQueueShared(channelId) ==
    [q |-> 1, queues |-> MapSet(queues, channelId, 1),
     n |-> IF nInstances = 0 THEN 1 ELSE nInstances]

\* getQueue(channelId): the instance returned, the map and the number of
\* instances after the call.
getQueue(channelId) ==
    IF channelId \in DOMAIN queues
    THEN [q |-> queues[channelId], queues |-> queues, n |-> nInstances]
    ELSE [q |-> nInstances + 1,
          queues |-> MapSet(queues, channelId, nInstances + 1),
          n |-> nInstances + 1]

(***************************************************************************)
(* ChannelQueue.processNext, on the record                                 *)
(*   st = [queue, processing, started, settled, errors]                    *)
(* of the fields it reads and writes; w is the table of work items.        *)
(***************************************************************************)
\* A variant that shares one processing flag between all instances.
BusyShared(st, q) == \E x \in Inst : st.processing[x]

\* A variant that never looks at the flag.
BusyNever(st, q) == FALSE

\* if (this.processing ...) return;
Busy(st, q) == st.processing[q]

\* A variant that takes the newest item (pop instead of shift).
DequeuePop(s) == [item |-> Last(s), rest |-> Front(s)]

\* const work = this.queue.shift();
Dequeue(s) == [item |-> Head(s), rest |-> Tail(s)]

\* A variant that releases the flag only when the item succeeded.
ReleaseOnSuccess(st, q, failed) ==
    IF failed THEN st ELSE [st EXCEPT !.processing[q] = FALSE]

\* finally { this.processing = false; ... }
Release(st, q, failed) == [st EXCEPT !.processing[q] = FALSE]

\* catch (err) { console.error(...) }
Catch(st, q, i, failed) ==
    IF failed THEN [st EXCEPT !.errors = @ + 1] ELSE st

\* A variant whose finally block does not call processNext again.
ContinueNever(st, q) == FALSE

\* finally { ...; this.processNext(); }
Continue(st, q) == TRUE

RECURSIVE processNext(_, _, _)
processNext(st, q, w) ==
    IF Busy(st, q) \/ st.queue[q] = <<>> THEN st
    ELSE LET d == Dequeue(st.queue[q])
             i == d.item
             s1 == [st EXCEPT !.processing[q] = TRUE,
                              !.queue[q] = d.rest,
                              !.started = Append(@, i)]
         IN IF w[i].kind = "throw"
            THEN \* work() throws before returning a promise: catch and
                 \* finally run in the same turn.
                 LET s2 == Catch([s1 EXCEPT !.settled = Append(@, i)], q, i, TRUE)
                     s3 == Release(s2, q, TRUE)
                 IN IF Continue(s3, q) THEN processNext(s3, q, w) ELSE s3
            ELSE s1   \* suspended at `await work()`

\* The continuation of processNext once the awaited promise of item i
\* has settled (failed = it rejected).
afterAwait(st, q, i, failed, w) ==
    LET s2 == Catch([st EXCEPT !.settled = Append(@, i)], q, i, failed)
        s3 == Release(s2, q, failed)
    IN IF Continue(s3, q) THEN processNext(s3, q, w) ELSE s3

\* enqueue(work): push, then processNext().
enqueue(st, q, i, w) ==
    processNext([st EXCEPT !.queue[q] = Append(@, i)], q, w)

QState == [queue |-> queue, processing |-> processing, started |-> started,
           settled |-> settled, errors |-> errors]

SetQState(st) ==
    /\ queue' = st.queue
    /\ processing' = st.processing
    /\ started' = st.started
    /\ settled' = st.settled
    /\ errors' = st.errors

(***************************************************************************)
(* Workspaces of the two handlers.                                         *)
(***************************************************************************)
\* DM handler: ensureWorkspace(config, user.id)
UserWorkspace(u) == <<"user", u>>

\* Mention handler: ensureChannelWorkspace(config, message.channelId)
ChannelWorkspace(c) == <<"channel", c>>

NoWorkspace == <<"none", "none">>

\* The work items that are called and not settled, on instance q.
Executing(q) ==
    {i \in Range(started) : i \notin Range(settled) /\ work[i].inst = q}

\* Push a new work item through the manager: getQueue(c).enqueue(item).
Submit(c, kind, ws) ==
    /\ LET g == getQueue(c)
           i == Len(work) + 1
           w == Append(work, [kind |-> kind, ws |-> ws, inst |-> g.q, chan |-> c])
       IN /\ queues' = g.queues
          /\ nInstances' = g.n
          /\ returned' = [returned EXCEPT ![c] = @ \cup {g.q}]
          /\ work' = w
          /\ SetQState(enqueue(QState, g.q, i, w))
    /\ UNCHANGED <<inRun, runOver, rvars, bvars, tvars, avars>>

(***************************************************************************)
(* Actions of the queue part.                                              *)
(***************************************************************************)
\* slackBot.onMessage: a DM of user u arriving on channel c.
OnMessage(u, c) ==
    /\ Len(work) < MaxItems
    /\ Submit(c, "resolve", UserWorkspace(u))

\* slackBot.onChannelMention: a mention in channel c.
OnChannelMention(c) ==
    /\ Len(work) < MaxItems
    /\ Submit(c, "resolve", ChannelWorkspace(c))

\* Any other closure given to enqueue of channel c's queue.
EnqueueWork(c, kind) ==
    /\ Len(work) < MaxItems
    /\ Submit(c, kind, NoWorkspace)

\* A stand-alone queueManager.getQueue(c).
GetQueue(c) ==
    /\ nInstances < MaxInst
    /\ LET g == getQueue(c)
       IN /\ queues' = g.queues
          /\ nInstances' = g.n
          /\ returned' = [returned EXCEPT ![c] = @ \cup {g.q}]
    /\ UNCHANGED <<queue, processing, work, started, settled, errors, inRun,
                   runOver, rvars, bvars, tvars, avars>>

\* A handler's work item reaches its `await runAgent(...)`.
StartRun(i) ==
    /\ i \in Range(started) /\ i \notin Range(settled)
    /\ work[i].ws # NoWorkspace
    /\ i \notin inRun /\ i \notin runOver
    /\ inRun' = inRun \cup {i}
    /\ UNCHANGED <<queues, nInstances, queue, processing, work, started,
                   settled, errors, runOver, returned, rvars, bvars, tvars,
                   avars>>

\* The runAgent call of item i returns or rejects: the closure goes on to
\* syncWorkspace, the uploads and the posts, or to its catch block.
EndRun(i) ==
    /\ i \in inRun
    /\ inRun' = inRun \ {i}
    /\ runOver' = runOver \cup {i}
    /\ UNCHANGED <<queues, nInstances, queue, processing, work, started,
                   settled, errors, returned, rvars, bvars, tvars, avars>>

\* The promise of a called work item settles; processNext resumes.  The
\* closure of a handler awaits its runAgent call, so it does not settle
\* while the call is in flight.
Settle(i) ==
    /\ i \in Range(started) /\ i \notin Range(settled)
    /\ i \notin inRun
    /\ work[i].kind \in {"resolve", "reject"}
    /\ SetQState(afterAwait(QState, work[i].inst, i, work[i].kind = "reject", work))
    /\ runOver' = runOver \ {i}
    /\ UNCHANGED <<queues, nInstances, work, inRun, returned, rvars, bvars,
                   tvars, avars>>

QueueInit ==
    /\ queues = EmptyMap
    /\ nInstances = 0
    /\ queue = [q \in Inst |-> <<>>]
    /\ processing = [q \in Inst |-> FALSE]
    /\ work = <<>>
    /\ started = <<>>
    /\ settled = <<>>
    /\ errors = 0
    /\ inRun = {}
    /\ runOver = {}
    /\ returned = [c \in Channels |-> {}]


QueueNext ==
    \/ \E u \in Users, c \in Channels : OnMessage(u, c)
    \/ \E c \in Channels : OnChannelMention(c)
    \/ \E c \in Channels, k \in Kinds : EnqueueWork(c, k)
    \/ \E c \in Channels : GetQueue(c)
    \/ \E i \in ItemIds : Settle(i)

\* The work items of the two handlers and their runAgent calls.
RunNext ==
    \/ \E u \in Users, c \in Channels : OnMessage(u, c)
    \/ \E c \in Channels : OnChannelMention(c)
    \/ \E i \in ItemIds : StartRun(i)
    \/ \E i \in ItemIds : EndRun(i)
    \/ \E i \in ItemIds : Settle(i)

(***************************************************************************)
(* SchedulerRoutes                                                         *)
(***************************************************************************)
\* The value of an unset `latestRoute` and of a failed lookup.
Undefined == [mode |-> "undefined", channelId |-> "", threadTs |-> ""]

\* SchedulerRoute values handed to setLatestRoute.
Routes ==
    {[mode |-> "dm", channelId |-> "D001", threadTs |-> ""],
     [mode |-> "channel", channelId |-> "C001", threadTs |-> "111.1"],
     [mode |-> "channel", channelId |-> "C001", threadTs |-> "222.2"]}

Jobs == {"job-1", "job-2"}

\* Number of SchedulerRoutes calls in a run of the model.
MaxCalls == 5

\* setLatestRoute(route): the new latestRoute.
setLatestRoute(route) == route

\* bindJob(jobId): the new routesByJobId.
bindJob(jobId) ==
    IF latestRoute = Undefined THEN routesByJobId
    ELSE MapSet(routesByJobId, jobId, latestRoute)

\* A variant that forgets to delete.
removeJobNoop(jobId) == routesByJobId

\* removeJob(jobId): the new routesByJobId.
removeJob(jobId) == MapDelete(routesByJobId, jobId)

\* A variant that prefers the latest route to the job's binding.
resolveLatestFirst(jobId) ==
    IF latestRoute # Undefined THEN latestRoute
    ELSE IF jobId \in DOMAIN routesByJobId THEN routesByJobId[jobId]
    ELSE Undefined

\* resolve(jobId): routesByJobId.get(jobId) ?? latestRoute
resolve(jobId) ==
    IF jobId \in DOMAIN routesByJobId THEN routesByJobId[jobId]
    ELSE latestRoute

Call(op, route, job) == [op |-> op, route |-> route, job |-> job]

SetLatestRoute(r) ==
    /\ Len(calls) < MaxCalls
    /\ latestRoute' = setLatestRoute(r)
    /\ calls' = Append(calls, Call("set", r, ""))
    /\ UNCHANGED <<routesByJobId, qvars, bvars, tvars, avars>>

BindJob(j) ==
    /\ Len(calls) < MaxCalls
    /\ routesByJobId' = bindJob(j)
    /\ calls' = Append(calls, Call("bind", Undefined, j))
    /\ UNCHANGED <<latestRoute, qvars, bvars, tvars, avars>>

RemoveJob(j) ==
    /\ Len(calls) < MaxCalls
    /\ routesByJobId' = removeJob(j)
    /\ calls' = Append(calls, Call("remove", Undefined, j))
    /\ UNCHANGED <<latestRoute, qvars, bvars, tvars, avars>>

RoutesInit ==
    /\ latestRoute = Undefined
    /\ routesByJobId = EmptyMap
    /\ calls = <<>>

RoutesNext ==
    \/ \E r \in Routes : SetLatestRoute(r)
    \/ \E j \in Jobs : BindJob(j)
    \/ \E j \in Jobs : RemoveJob(j)

(***************************************************************************)
(* SchedulerBridge                                                         *)
(***************************************************************************)
\* Sessions started by query() in a run of the model.
MaxSessions == 2

\* Messages emitted by the external sessions in a run of the model.
MaxEvents == 2

\* syncWorkspace calls made on one registered state in a run of the model.
MaxSyncs == 1

\* Workspace directories handed to ensureWorkspace.
Dirs == {"w1", "w2"}

\* Routes handed to ensureWorkspace; Undefined is a call without a route.
BridgeRoutes == {r \in Routes : r.threadTs # "222.2"}

\* An optional field that is not set.
Missing == "undefined"

\* !x for an optional string field.
Falsy(x) == x = Missing \/ x = ""

SchedulerEvent(action, jobId, status, summary, error) ==
    [type |-> "system", subtype |-> "scheduler_event", action |-> action,
     jobId |-> jobId, status |-> status, summary |-> summary,
     error |-> error]

\* The SDK messages that come out of a session's stream.
Messages ==
    {SchedulerEvent(a, j, Missing, Missing, Missing) :
        a \in {"added", "removed", "started"}, j \in Jobs}
    \cup {SchedulerEvent("finished", j, "ok", "report ready", Missing) :
            j \in Jobs}
    \cup {SchedulerEvent("finished", j, "error", Missing, "boom") :
            j \in Jobs}
    \cup {SchedulerEvent("finished", Missing, Missing, Missing, Missing)}
    \cup {[type |-> "assistant", subtype |-> Missing, action |-> Missing,
           jobId |-> Missing, status |-> Missing, summary |-> Missing,
           error |-> Missing]}

\* A variant whose failed form prefers the error text.
formatErrorFirst(event) ==
    LET status == IF event.status = Missing THEN "ok" ELSE event.status
        details == IF ~Falsy(event.summary) THEN event.summary
                   ELSE IF ~Falsy(event.error) THEN event.error
                   ELSE "completed"
        failure == IF ~Falsy(event.error) THEN event.error ELSE details
        id == IF event.jobId = Missing THEN "unknown" ELSE event.jobId
    IN  IF status = "ok" THEN <<"Scheduled job ", id, ": ", details>>
        ELSE IF status = "skipped"
             THEN <<"Scheduled job ", id, " was skipped: ", details>>
        ELSE <<"Scheduled job ", id, " failed: ", failure>>

\* formatFinishedEventText(event): the text, as the parts of the template.
formatFinishedEventText(event) ==
    LET status == IF event.status = Missing THEN "ok" ELSE event.status
        details == IF ~Falsy(event.summary) THEN event.summary
                   ELSE IF ~Falsy(event.error) THEN event.error
                   ELSE "completed"
        id == IF event.jobId = Missing THEN "unknown" ELSE event.jobId
    IN  IF status = "ok" THEN <<"Scheduled job ", id, ": ", details>>
        ELSE IF status = "skipped"
             THEN <<"Scheduled job ", id, " was skipped: ", details>>
        ELSE <<"Scheduled job ", id, " failed: ", details>>

\* SchedulerRoutes methods on the routes object of a state st.
setLatestRouteOn(st, route) == [st EXCEPT !.latestRoute = route]

\* A variant that binds every job to the latest route.
bindEveryJobOn(st, jobId) ==
    IF st.latestRoute = Undefined THEN st
    ELSE [st EXCEPT !.routesByJobId = [j \in Jobs |-> st.latestRoute]]

bindJobOn(st, jobId) ==
    IF st.latestRoute = Undefined THEN st
    ELSE [st EXCEPT !.routesByJobId = MapSet(@, jobId, st.latestRoute)]

removeJobOn(st, jobId) == [st EXCEPT !.routesByJobId = MapDelete(@, jobId)]

resolveOn(st, jobId) ==
    IF jobId \in DOMAIN st.routesByJobId THEN st.routesByJobId[jobId]
    ELSE st.latestRoute

\* A variant that stores whatever it is given, a missing route included.
EnsureRouteAlways(st, route) == setLatestRouteOn(st, route)

\* if (route) <state>.routes.setLatestRoute(route);
EnsureRoute(st, route) ==
    IF route # Undefined THEN setLatestRouteOn(st, route) ELSE st

\* The session made by query() in ensureWorkspace(d, r), and the state
\* object the call builds for it once the session answers.
NewSession(d, r) ==
    [dir |-> d, arg |-> r, phase |-> "init", open |-> TRUE,
     control |-> <<>>, latestRoute |-> Undefined, routesByJobId |-> EmptyMap,
     closing |-> FALSE, closeDone |-> FALSE, busy |-> 0,
     preStop |-> stopAllPc = "idle", sync |-> <<>>]

Sessions == 1 .. Len(sess)

Registered == {workspaces[d] : d \in DOMAIN workspaces}

LogEntry(msg, d, ref) == [msg |-> msg, dir |-> d, ref |-> ref]

\* ensureWorkspace on a directory that has an entry (lines 67-71).
EnsureWorkspaceExisting(d, r) ==
    /\ d \in DOMAIN workspaces
    /\ sess' = [sess EXCEPT ![workspaces[d]] = EnsureRoute(@, r)]
    /\ UNCHANGED <<workspaces, stream, events, handled, completed,
                   deliveries, blog, stopAllPc, stopping, qvars, rvars,
                   tvars, avars>>

\* ensureWorkspace on a directory without an entry, up to its first await:
\* query() starts the external session.
EnsureWorkspaceNew(d, r) ==
    /\ d \notin DOMAIN workspaces
    /\ Len(sess) < MaxSessions
    /\ sess' = Append(sess, NewSession(d, r))
    /\ stream' = Append(stream, <<>>)
    /\ UNCHANGED <<workspaces, events, handled, completed, deliveries, blog,
                   stopAllPc, stopping, qvars, rvars, tvars, avars>>

EnsureWorkspace(d, r) ==
    \/ EnsureWorkspaceExisting(d, r)
    \/ EnsureWorkspaceNew(d, r)

\* `await q.initialized` resolves; scheduler_start is sent.
EnsureInitialized(s) ==
    /\ sess[s].phase = "init"
    /\ sess[s].open
    /\ sess' = [sess EXCEPT ![s].phase = "start",
                            ![s].control = Append(@, "scheduler_start")]
    /\ UNCHANGED <<workspaces, stream, events, handled, completed,
                   deliveries, blog, stopAllPc, stopping, qvars, rvars,
                   tvars, avars>>

\* scheduler_start is answered; scheduler_status is sent.
EnsureStarted(s) ==
    /\ sess[s].phase = "start"
    /\ sess[s].open
    /\ sess' = [sess EXCEPT ![s].phase = "status",
                            ![s].control = Append(@, "scheduler_status")]
    /\ UNCHANGED <<workspaces, stream, events, handled, completed,
                   deliveries, blog, stopAllPc, stopping, qvars, rvars,
                   tvars, avars>>

\* scheduler_status is answered: the state is built, registered, and the
\* consumer loop is started (lines 118-130).
EnsureRegistered(s) ==
    /\ sess[s].phase = "status"
    /\ sess[s].open
    /\ sess' = [sess EXCEPT ![s] =
                    EnsureRoute([@ EXCEPT !.phase = "live"], sess[s].arg)]
    /\ workspaces' = MapSet(workspaces, sess[s].dir, s)
    /\ UNCHANGED <<stream, events, handled, completed, deliveries, blog,
                   stopAllPc, stopping, qvars, rvars, tvars, avars>>

\* One of the awaits of ensureWorkspace rejects (or sendControlRequest is
\* not there): the call throws, nothing closes the session.
EnsureFailed(s) ==
    /\ sess[s].phase \in {"init", "start", "status"}
    /\ sess' = [sess EXCEPT ![s].phase = "failed"]
    /\ UNCHANGED <<workspaces, stream, events, handled, completed,
                   deliveries, blog, stopAllPc, stopping, qvars, rvars,
                   tvars, avars>>

\* The external process of a session ends on its own.
ProcessExit(s) ==
    /\ sess[s].open
    /\ sess' = [sess EXCEPT ![s].open = FALSE]
    /\ UNCHANGED <<workspaces, stream, events, handled, completed,
                   deliveries, blog, stopAllPc, stopping, qvars, rvars,
                   tvars, avars>>

\* syncWorkspace(d) up to its first await: nothing for a directory without
\* an entry; otherwise scheduler_status is sent on the registered state.
SyncWorkspace(d) ==
    \/ /\ d \notin DOMAIN workspaces
       /\ UNCHANGED vars
    \/ /\ d \in DOMAIN workspaces
       /\ Len(sess[workspaces[d]].sync) < MaxSyncs
       /\ sess' = [sess EXCEPT
                     ![workspaces[d]].control = Append(@, "scheduler_status"),
                     ![workspaces[d]].sync = Append(@, "status")]
       /\ UNCHANGED <<workspaces, stream, events, handled, completed,
                      deliveries, blog, stopAllPc, stopping, qvars, rvars,
                      tvars, avars>>

\* scheduler_status of call k on the state of session s is answered;
\* scheduler_start is sent.
SyncStatusAnswered(s, k) ==
    /\ k \in DOMAIN sess[s].sync
    /\ sess[s].sync[k] = "status"
    /\ sess[s].open
    /\ sess' = [sess EXCEPT ![s].control = Append(@, "scheduler_start"),
                            ![s].sync[k] = "start"]
    /\ UNCHANGED <<workspaces, stream, events, handled, completed,
                   deliveries, blog, stopAllPc, stopping, qvars, rvars,
                   tvars, avars>>

\* scheduler_start of call k is answered: logger.debug, and the call
\* returns.
SyncStartAnswered(s, k) ==
    /\ k \in DOMAIN sess[s].sync
    /\ sess[s].sync[k] = "start"
    /\ sess[s].open
    /\ sess' = [sess EXCEPT ![s].sync[k] = "done"]
    /\ UNCHANGED <<workspaces, stream, events, handled, completed,
                   deliveries, blog, stopAllPc, stopping, qvars, rvars,
                   tvars, avars>>

\* A control request of call k rejects: the catch block logs 'Scheduler
\* bridge sync failed' and the call returns.
SyncFailed(s, k) ==
    /\ k \in DOMAIN sess[s].sync
    /\ sess[s].sync[k] \in {"status", "start"}
    /\ sess' = [sess EXCEPT ![s].sync[k] = "failed"]
    /\ blog' = Append(blog, LogEntry("sync-failed", sess[s].dir, s))
    /\ UNCHANGED <<workspaces, stream, events, handled, completed,
                   deliveries, stopAllPc, stopping, qvars, rvars, tvars,
                   avars>>

\* The latest route of the state registered for directory d.
LatestOf(d) ==
    IF d \in DOMAIN workspaces THEN sess[workspaces[d]].latestRoute
    ELSE Undefined

\* A registered, running session emits message m.
Emit(s, m) ==
    /\ sess[s].phase = "live"
    /\ sess[s].open
    /\ Len(events) < MaxEvents
    /\ events' = Append(events, [sid |-> s, msg |-> m,
                                 latest |-> IF m.action = "added"
                                            THEN LatestOf(sess[s].dir)
                                            ELSE Undefined])
    /\ stream' = [stream EXCEPT ![s] = Append(@, Len(events) + 1)]
    /\ UNCHANGED <<workspaces, sess, handled, completed, deliveries, blog,
                   stopAllPc, stopping, qvars, rvars, tvars, avars>>

\* What a handleMessage call leaves behind: the sessions' states, the
\* deliveries, the log, and whether it is waiting for onDelivery.
Outcome(ss, dl, lg, awaiting) ==
    [sess |-> ss, deliveries |-> dl, blog |-> lg, awaiting |-> awaiting]

\* A variant that drops the event without a word.
NoRouteSilent(d, id) == Outcome(sess, deliveries, blog, FALSE)

\* if (!route) { logger.warn(..., "Scheduler event has no route mapping") }
NoRoute(d, id) ==
    Outcome(sess, deliveries, Append(blog, LogEntry("no-route", d, id)),
            FALSE)

\* A variant that sends every notification to the latest route.
DeliverToLatest(d, id, route) ==
    Outcome(sess,
            Append(deliveries,
                   [ev |-> id, dir |-> d, route |-> LatestOf(d),
                    text |-> formatFinishedEventText(events[id].msg)]),
            blog, TRUE)

\* await this.onDelivery(route, formatFinishedEventText(event))
Deliver(d, id, route) ==
    Outcome(sess,
            Append(deliveries,
                   [ev |-> id, dir |-> d, route |-> route,
                    text |-> formatFinishedEventText(events[id].msg)]),
            blog, TRUE)

\* handleMessage(workspaceDir, message), message being events[id].msg, up
\* to its return or its await of onDelivery.
handleMessage(workspaceDir, id) ==
    LET message == events[id].msg
        ignored == Outcome(sess, deliveries, blog, FALSE)
    IN  IF message.type # "system" \/ message.subtype # "scheduler_event"
        THEN ignored
        ELSE IF workspaceDir \notin DOMAIN workspaces THEN ignored
        ELSE IF Falsy(message.action) \/ Falsy(message.jobId) THEN ignored
        ELSE
          LET k == workspaces[workspaceDir]
              state == sess[k]
          IN  IF message.action = "added"
              THEN Outcome([sess EXCEPT ![k] = bindJobOn(state, message.jobId)],
                           deliveries, blog, FALSE)
              ELSE IF message.action = "removed"
              THEN Outcome([sess EXCEPT
                               ![k] = removeJobOn(state, message.jobId)],
                           deliveries, blog, FALSE)
              ELSE IF message.action # "finished" THEN ignored
              ELSE IF resolveOn(state, message.jobId) = Undefined
                   THEN NoRoute(workspaceDir, id)
              ELSE Deliver(workspaceDir, id,
                           resolveOn(state, message.jobId))

\* A variant of the loop that takes the next message at once.
ConsumerNeverWaits(st) == TRUE

\* The loop of consumeWorkspaceStream is between two messages: the
\* handleMessage call it awaited, if any, has returned.
ConsumerFree(st) == st.busy = 0

\* The consumer loop of session s takes the next message of the stream and
\* calls handleMessage.
HandleMessage(s) ==
    /\ sess[s].phase = "live"
    /\ ConsumerFree(sess[s])
    /\ stream[s] # <<>>
    /\ LET id == Head(stream[s])
           out == handleMessage(sess[s].dir, id)
       IN  /\ sess' = [out.sess EXCEPT
                          ![s].busy = IF out.awaiting THEN id ELSE 0]
           /\ deliveries' = out.deliveries
           /\ blog' = out.blog
           /\ handled' = Append(handled, id)
           /\ completed' = IF out.awaiting THEN completed
                           ELSE completed \cup {id}
           /\ stream' = [stream EXCEPT ![s] = Tail(@)]
    /\ UNCHANGED <<workspaces, events, stopAllPc, stopping, qvars, rvars,
                   tvars, avars>>

\* onDelivery resolves; handleMessage returns.
DeliveryResolved(s) ==
    /\ sess[s].busy # 0
    /\ completed' = completed \cup {sess[s].busy}
    /\ sess' = [sess EXCEPT ![s].busy = 0]
    /\ UNCHANGED <<workspaces, stream, events, handled, deliveries, blog,
                   stopAllPc, stopping, qvars, rvars, tvars, avars>>

\* A variant whose rejection leaves handleMessage and ends the loop of
\* consumeWorkspaceStream by its catch and finally blocks.
DeliveryRejectedEscapes(s) ==
    /\ sess[s].busy # 0
    /\ completed' = completed \cup {sess[s].busy}
    /\ blog' = Append(blog, LogEntry("stream-failed", sess[s].dir, s))
    /\ workspaces' = MapDelete(workspaces, sess[s].dir)
    /\ sess' = [sess EXCEPT ![s].busy = 0, ![s].phase = "ended"]
    /\ UNCHANGED <<stream, events, handled, deliveries, stopAllPc, stopping,
                   qvars, rvars, tvars, avars>>

\* onDelivery rejects; the catch logs the error and handleMessage returns.
DeliveryRejected(s) ==
    /\ sess[s].busy # 0
    /\ completed' = completed \cup {sess[s].busy}
    /\ blog' = Append(blog, LogEntry("delivery-failed", sess[s].dir,
                                     sess[s].busy))
    /\ sess' = [sess EXCEPT ![s].busy = 0]
    /\ UNCHANGED <<workspaces, stream, events, handled, deliveries,
                   stopAllPc, stopping, qvars, rvars, tvars, avars>>

\* if (state && !state.closing) in the finally block.
WarnUnexpected(d) ==
    d \in DOMAIN workspaces /\ ~sess[workspaces[d]].closing

\* The finally block of consumeWorkspaceStream for session s, after lg has
\* been logged.
Finally(s, lg) ==
    /\ blog' = IF WarnUnexpected(sess[s].dir)
               THEN Append(lg, LogEntry("stopped-unexpectedly",
                                        sess[s].dir, s))
               ELSE lg
    /\ workspaces' = MapDelete(workspaces, sess[s].dir)
    /\ sess' = [sess EXCEPT ![s].phase = "ended"]

\* The stream of session s ends after its last message.
StreamEnded(s) ==
    /\ sess[s].phase = "live"
    /\ sess[s].busy = 0
    /\ ~sess[s].open
    /\ stream[s] = <<>>
    /\ Finally(s, blog)
    /\ UNCHANGED <<stream, events, handled, completed, deliveries,
                   stopAllPc, stopping, qvars, rvars, tvars, avars>>

\* The stream of session s throws; what it still held is lost.
StreamFailed(s) ==
    /\ sess[s].phase = "live"
    /\ sess[s].busy = 0
    /\ ~sess[s].open
    /\ Finally(s, Append(blog, LogEntry("stream-failed", sess[s].dir, s)))
    /\ stream' = [stream EXCEPT ![s] = <<>>]
    /\ UNCHANGED <<events, handled, completed, deliveries, stopAllPc,
                   stopping, qvars, rvars, tvars, avars>>

\* stopAll() up to its await: every registered state's stop() is called,
\* which sets closing and asks the session to close.
StopAllBegin ==
    /\ stopAllPc = "idle"
    /\ stopAllPc' = "closing"
    /\ stopping' = Registered
    /\ sess' = [s \in Sessions |->
                   IF s \in Registered THEN [sess[s] EXCEPT !.closing = TRUE]
                   ELSE sess[s]]
    /\ UNCHANGED <<workspaces, stream, events, handled, completed,
                   deliveries, blog, qvars, rvars, tvars, avars>>

\* q.close() of a session stopAll is stopping resolves.
CloseDone(s) ==
    /\ s \in stopping
    /\ ~sess[s].closeDone
    /\ sess' = [sess EXCEPT ![s].open = FALSE, ![s].closeDone = TRUE]
    /\ UNCHANGED <<workspaces, stream, events, handled, completed,
                   deliveries, blog, stopAllPc, stopping, qvars, rvars,
                   tvars, avars>>

\* Promise.all resolves; this.workspaces.clear(); stopAll returns.
StopAllEnd ==
    /\ stopAllPc = "closing"
    /\ \A s \in stopping : sess[s].closeDone
    /\ workspaces' = EmptyMap
    /\ stopAllPc' = "done"
    /\ UNCHANGED <<sess, stream, events, handled, completed, deliveries,
                   blog, stopping, qvars, rvars, tvars, avars>>

BridgeInit ==
    /\ workspaces = EmptyMap
    /\ sess = <<>>
    /\ stream = <<>>
    /\ events = <<>>
    /\ handled = <<>>
    /\ completed = {}
    /\ deliveries = <<>>
    /\ blog = <<>>
    /\ stopAllPc = "idle"
    /\ stopping = {}

\* ensureWorkspace calls, the sessions' ends and stopAll.
BridgeNext ==
    \/ \E d \in Dirs, r \in BridgeRoutes \cup {Undefined} :
           EnsureWorkspaceExisting(d, r)
    \/ \E d \in Dirs, r \in BridgeRoutes \cup {Undefined} :
           EnsureWorkspaceNew(d, r)
    \/ \E s \in Sessions : EnsureInitialized(s)
    \/ \E s \in Sessions : EnsureStarted(s)
    \/ \E s \in Sessions : EnsureRegistered(s)
    \/ \E s \in Sessions : EnsureFailed(s)
    \/ \E s \in Sessions : ProcessExit(s)
    \/ \E s \in Sessions : StreamEnded(s)
    \/ \E s \in Sessions : StreamFailed(s)
    \/ StopAllBegin
    \/ \E s \in Sessions : CloseDone(s)
    \/ StopAllEnd

\* The sessions of the workspaces under ensureWorkspace and syncWorkspace
\* calls, with the ends of their processes and streams.
BridgeSyncNext ==
    \/ \E d \in Dirs, r \in {Undefined} : EnsureWorkspaceNew(d, r)
    \/ \E s \in Sessions : EnsureInitialized(s)
    \/ \E s \in Sessions : EnsureStarted(s)
    \/ \E s \in Sessions : EnsureRegistered(s)
    \/ \E s \in Sessions : ProcessExit(s)
    \/ \E d \in Dirs : SyncWorkspace(d)
    \/ \E s \in Sessions, k \in 1 .. MaxSyncs : SyncStatusAnswered(s, k)
    \/ \E s \in Sessions, k \in 1 .. MaxSyncs : SyncStartAnswered(s, k)
    \/ \E s \in Sessions, k \in 1 .. MaxSyncs : SyncFailed(s, k)
    \/ \E s \in Sessions : StreamEnded(s)

\* The messages of one job, one of each kind handleMessage tells apart.
EventMessages ==
    {m \in Messages : m.jobId # "job-2" /\ m.status # "error"}

\* The previous session of the directory, if any, is over.
NoSessionLeft == \A s \in Sessions : sess[s].phase = "ended"

\* Times the session of the directory is started again after it ended.
MaxRestarts == 0

\* ensureWorkspace on a directory whose previous session is over.
EnsureWorkspaceAgain(d, r) ==
    /\ NoSessionLeft
    /\ Len(sess) <= MaxRestarts
    /\ EnsureWorkspaceNew(d, r)

\* The process of a registered session ends on its own.
RegisteredExit(s) ==
    /\ sess[s].phase = "live"
    /\ ProcessExit(s)

\* One workspace whose sessions follow one another, and their messages.
BridgeEventNext ==
    \/ \E r \in BridgeRoutes \cup {Undefined} :
           EnsureWorkspaceExisting("w1", r)
    \/ \E r \in BridgeRoutes \cup {Undefined} :
           EnsureWorkspaceAgain("w1", r)
    \/ \E s \in Sessions : EnsureInitialized(s)
    \/ \E s \in Sessions : EnsureStarted(s)
    \/ \E s \in Sessions : EnsureRegistered(s)
    \/ \E s \in Sessions : RegisteredExit(s)
    \/ \E s \in Sessions, m \in EventMessages : Emit(s, m)
    \/ \E s \in Sessions : HandleMessage(s)
    \/ \E s \in Sessions : DeliveryResolved(s)
    \/ \E s \in Sessions : DeliveryRejected(s)
    \/ \E s \in Sessions : StreamEnded(s)

\* The messages handleMessage leaves without a delivery, and one it
\* delivers: events of two jobs, an event of another action, events without
\* an action or without a job id, and a message that is no scheduler event.
FrameMessages ==
    {SchedulerEvent("added", j, Missing, Missing, Missing) : j \in Jobs}
    \cup {SchedulerEvent(a, "job-1", Missing, Missing, Missing) :
            a \in {"removed", "updated", Missing}}
    \cup {SchedulerEvent("added", Missing, Missing, Missing, Missing),
          SchedulerEvent("finished", "job-1", "ok", "report ready", Missing),
          [type |-> "assistant", subtype |-> Missing, action |-> Missing,
           jobId |-> Missing, status |-> Missing, summary |-> Missing,
           error |-> Missing]}

\* ensureWorkspace on the directory before it has had a session.
EnsureWorkspaceFirst(d, r) ==
    /\ sess = <<>>
    /\ EnsureWorkspaceNew(d, r)

\* One workspace with one session, its latest route and its messages.
BridgeFrameNext ==
    \/ \E r \in BridgeRoutes \cup {Undefined} :
           EnsureWorkspaceExisting("w1", r)
    \/ \E r \in {Undefined} : EnsureWorkspaceFirst("w1", r)
    \/ \E s \in Sessions : EnsureInitialized(s)
    \/ \E s \in Sessions : EnsureStarted(s)
    \/ \E s \in Sessions : EnsureRegistered(s)
    \/ \E s \in Sessions, m \in FrameMessages : Emit(s, m)
    \/ \E s \in Sessions : HandleMessage(s)
    \/ \E s \in Sessions : DeliveryResolved(s)
    \/ \E s \in Sessions : DeliveryRejected(s)

(***************************************************************************)
(* The tool-output queue file of one workspace (runner.ts, upload-tool.ts) *)
(* and UploadCollector.  The file is written by the tools of the external  *)
(* sessions (other processes) and by runAgent; every write opens the file  *)
(* with truncation and writes its content in a later step, and nothing     *)
(* keeps two runAgent calls on one workspace apart.                        *)
(***************************************************************************)
\* Writes to the queue file by others than runAgent in a run of the model:
\* entries the tools set out to write, and corruptions of the file.
MaxWrites == 2

\* Entries the tools set out to write in DrainNext.
MaxDrainWrites == 1

\* runAgent calls on the workspace in a run of the model.
MaxRuns == 2

\* Entries held by the UploadCollector of DrainNext at a time.
MaxCollect == 1

\* Paths given to the send-file tools.  out/gone.txt is there when it is
\* queued and deleted before the queue is drained; ../x.txt is outside the
\* workspace.
Paths == {"out/a.txt", "out/gone.txt", "../x.txt"}

Inside(p) == p # "../x.txt"

ExistsWhenQueued(p) == p \in {"out/a.txt", "out/gone.txt"}

ExistsWhenDrained(p) == p = "out/a.txt"

\* Messages given to the send-message tools.
Texts == {"hi", " hi ", " "}

\* String.prototype.trim on these.
Trim(t) == IF t = " hi " THEN "hi" ELSE IF t = " " THEN "" ELSE t

\* Who writes to the queue file with the tools: the workspace's scheduler
\* session (same cwd, same tools directory), and the external session of
\* the k-th runAgent call on the workspace, as producer k.
Scheduler == 0

\* The runAgent calls of a run of the model, in call order.
Calls == 1 .. MaxRuns

Producers == {Scheduler} \cup Calls

NoEntries == [uploads |-> <<>>, messages |-> <<>>]

\* JSON.stringify({ uploads: [], messages: [] })
EmptyQueue == [kind |-> "ok", uploads |-> <<>>, messages |-> <<>>]

\* The file does not exist.
NoFile == [kind |-> "missing", uploads |-> <<>>, messages |-> <<>>]

\* The file as an open for writing leaves it: there, with no bytes in it.
Truncated == [kind |-> "empty", uploads |-> <<>>, messages |-> <<>>]

\* The kinds of queue file: ok holds an object with two arrays, missing does
\* not exist, empty has no bytes, invalid does not parse as JSON, scalar
\* parses to a value that is not an object, badUploads / badMessages hold an
\* object whose uploads / messages field is not an array.  The lists of a
\* file that is not ok hold what a reader that does not look at the shape
\* would take from it, and give the file its length.
FileKinds ==
    {"ok", "missing", "empty", "invalid", "scalar", "badUploads", "badMessages"}

\* The length of JSON.stringify of a list of strings without its brackets.
RECURSIVE ListLen(_)
ListLen(s) ==
    IF s = <<>> THEN 0
    ELSE Len(s[1].val) + 2 + (IF Len(s) > 1 THEN 1 ELSE 0) + ListLen(Tail(s))

\* The number of bytes of a file: those of {"uploads":[],"messages":[]}
\* and of its entries.
FileLen(file) ==
    IF file.kind \in {"missing", "empty"} THEN 0
    ELSE 28 + ListLen(file.uploads) + ListLen(file.messages)

\* The file after `content` has been written at its start through a handle
\* opened earlier: the content, followed by what another writer has put
\* beyond its end since the open; such a file does not parse.
Written(content, file) ==
    IF FileLen(content) >= FileLen(file) THEN content
    ELSE [kind |-> "invalid", uploads |-> file.uploads,
          messages |-> file.messages]

\* A variant that leaves the file as it is.
resetKeeps(file) == file

\* resetWorkspaceToolQueue: the content it writes.
resetWorkspaceToolQueue(file) == EmptyQueue

\* loadQueue of the tools: the parsed file, empty when it cannot be read
\* or parsed, and an empty list for a field that is not an array.
loadQueue(file) ==
    IF file.kind \in {"missing", "empty", "invalid", "scalar"} THEN EmptyQueue
    ELSE [kind |-> "ok",
          uploads |-> IF file.kind = "badUploads" THEN <<>> ELSE file.uploads,
          messages |-> IF file.kind = "badMessages" THEN <<>>
                       ELSE file.messages]

\* The entries of s without those whose value occurred earlier in s.
RECURSIVE Dedupe(_)
Dedupe(s) ==
    IF s = <<>> THEN <<>>
    ELSE LET front == Dedupe(Front(s))
         IN  IF \E k \in DOMAIN front : front[k].val = Last(s).val
             THEN front
             ELSE Append(front, Last(s))

Trimmed(s) == [k \in DOMAIN s |-> [s[k] EXCEPT !.val = Trim(@)]]

\* A variant that takes the fields as they come.
normalizeUnchecked(file) ==
    [uploads |->
         Dedupe(SelectSeq(file.uploads,
                          LAMBDA e : Inside(e.val) /\ ExistsWhenDrained(e.val))),
     messages |->
         Dedupe(SelectSeq(Trimmed(file.messages), LAMBDA e : e.val # ""))]

\* normalizeQueueSnapshot(value, workspaceDir)
normalizeQueueSnapshot(file) ==
    IF file.kind = "scalar" THEN NoEntries
    ELSE
    [uploads |->
         IF file.kind = "badUploads" THEN <<>>
         ELSE
         Dedupe(SelectSeq(file.uploads,
                          LAMBDA e : Inside(e.val) /\ ExistsWhenDrained(e.val))),
     messages |->
         IF file.kind = "badMessages" THEN <<>>
         ELSE
         Dedupe(SelectSeq(Trimmed(file.messages), LAMBDA e : e.val # ""))]

\* drainWorkspaceToolQueue, the value it returns for the file it read:
\* readFile throws for a missing file, JSON.parse for an empty or invalid
\* one, and the catch block returns the empty lists.
drainResult(file) ==
    IF file.kind \in {"missing", "empty", "invalid"} THEN NoEntries
    ELSE normalizeQueueSnapshot(file)

\* The ids of the entries a file holds.
Wids(file) ==
    {file.uploads[k].wid : k \in DOMAIN file.uploads}
    \cup {file.messages[k].wid : k \in DOMAIN file.messages}

\* A tool that is not writing.  orphan: the file was removed after the
\* writer opened it, so the write goes to a file no path leads to.
Idle ==
    [pc |-> "idle", kind |-> "", val |-> "", wid |-> 0, loaded |-> EmptyQueue,
     orphan |-> FALSE]

\* The session of a run writes only while the run is waiting for it.
MayWrite(p) == p # Scheduler => (p \in DOMAIN run /\ run[p].pc = "running")

\* A tool of producer p starts queueUpload(path): loadQueue has returned.
\* The tool has checked that the path is inside the workspace and exists.
QueueUploadLoad(p, path) ==
    /\ MayWrite(p)
    /\ prod[p].pc = "idle"
    /\ nwrites < MaxWrites
    /\ Inside(path) /\ ExistsWhenQueued(path)
    /\ nwrites' = nwrites + 1
    /\ prod' = [prod EXCEPT ![p] = [pc |-> "loaded", kind |-> "upload",
                                    val |-> path, wid |-> nwrites + 1,
                                    loaded |-> loadQueue(qfile),
                                    orphan |-> FALSE]]
    /\ UNCHANGED <<qfile, run, quiet, drains, pending, pendingMessages,
                   cdrains, qvars, rvars, bvars, avars>>

\* A tool of producer p starts queueMessage(message): the message is
\* trimmed, is not empty, and loadQueue has returned.
QueueMessageLoad(p, message) ==
    /\ MayWrite(p)
    /\ prod[p].pc = "idle"
    /\ nwrites < MaxWrites
    /\ Trim(message) # ""
    /\ nwrites' = nwrites + 1
    /\ prod' = [prod EXCEPT ![p] = [pc |-> "loaded", kind |-> "message",
                                    val |-> Trim(message), wid |-> nwrites + 1,
                                    loaded |-> loadQueue(qfile),
                                    orphan |-> FALSE]]
    /\ UNCHANGED <<qfile, run, quiet, drains, pending, pendingMessages,
                   cdrains, qvars, rvars, bvars, avars>>

\* The queue the tool of producer p saves: what it loaded plus its entry.
Pushed(p) ==
    LET e == [val |-> prod[p].val, wid |-> prod[p].wid,
              by |-> IF p = Scheduler THEN "scheduler" ELSE "session",
              run |-> p]
    IN  IF prod[p].kind = "upload"
        THEN [prod[p].loaded EXCEPT !.uploads = Append(@, e)]
        ELSE [prod[p].loaded EXCEPT !.messages = Append(@, e)]

\* saveQueue of the tool of producer p: fs.writeFileSync opens the file,
\* which truncates it.
SaveQueueOpen(p) ==
    /\ MayWrite(p)
    /\ prod[p].pc = "loaded"
    /\ qfile' = Truncated
    /\ quiet' = FALSE
    /\ prod' = [prod EXCEPT ![p].pc = "opened"]
    /\ UNCHANGED <<run, nwrites, drains, pending, pendingMessages, cdrains,
                   qvars, rvars, bvars, avars>>

\* saveQueue of the tool of producer p: fs.writeFileSync writes the queue.
SaveQueueWrite(p) ==
    /\ MayWrite(p)
    /\ prod[p].pc = "opened"
    /\ qfile' = IF prod[p].orphan THEN qfile ELSE Written(Pushed(p), qfile)
    /\ quiet' = FALSE
    /\ prod' = [prod EXCEPT ![p] = Idle]
    /\ UNCHANGED <<run, nwrites, drains, pending, pendingMessages, cdrains,
                   qvars, rvars, bvars, avars>>

\* A runAgent call at pc that holds nothing it has read.
AgentCall(pc) ==
    [pc |-> pc, stale |-> {}, read |-> NoEntries, readQuiet |-> FALSE,
     orphan |-> FALSE]

\* runAgent is called on the workspace, whatever the earlier calls on it
\* are doing.  stale: the entries the queue holds at the call.
RunAgent ==
    /\ Len(run) < MaxRuns
    /\ run' = Append(run, [AgentCall("called") EXCEPT
                               !.stale = Wids(loadQueue(qfile))])
    /\ UNCHANGED <<qfile, prod, quiet, nwrites, drains, pending,
                   pendingMessages, cdrains, qvars, rvars, bvars, avars>>

\* The file after a reset has written through its handle.
ResetWritten(orphan) ==
    IF orphan THEN qfile ELSE Written(resetWorkspaceToolQueue(qfile), qfile)

\* await resetWorkspaceToolQueue(absWorkspace) of call k: writeFile opens
\* the file, which truncates it.
ResetBeforeRunOpen(k) ==
    /\ k \in DOMAIN run
    /\ run[k].pc = "called"
    /\ qfile' = Truncated
    /\ quiet' = TRUE
    /\ run' = [run EXCEPT ![k].pc = "resetting"]
    /\ UNCHANGED <<prod, nwrites, drains, pending, pendingMessages, cdrains,
                   qvars, rvars, bvars, avars>>

\* writeFile writes the empty queue and resolves; then query().
ResetBeforeRun(k) ==
    /\ k \in DOMAIN run
    /\ run[k].pc = "resetting"
    /\ qfile' = ResetWritten(run[k].orphan)
    /\ run' = [run EXCEPT ![k].pc = "running", ![k].orphan = FALSE]
    /\ UNCHANGED <<prod, quiet, nwrites, drains, pending, pendingMessages,
                   cdrains, qvars, rvars, bvars, avars>>

\* The message loop of call k is over and `await q.close()` has returned.
RunClose(k) ==
    /\ k \in DOMAIN run
    /\ run[k].pc = "running"
    /\ run' = [run EXCEPT ![k].pc = "closed"]
    /\ prod' = [prod EXCEPT ![k] = Idle]
    /\ UNCHANGED <<qfile, quiet, nwrites, drains, pending, pendingMessages,
                   cdrains, qvars, rvars, bvars, avars>>

\* Call k throws before it reaches the drain (an await rejects, the stream
\* fails): the queue keeps what it holds.
RunCrash(k) ==
    /\ k \in DOMAIN run
    /\ run[k].pc \in {"called", "running"}
    /\ run' = [run EXCEPT ![k] = AgentCall("crashed")]
    /\ prod' = [prod EXCEPT ![k] = Idle]
    /\ UNCHANGED <<qfile, quiet, nwrites, drains, pending, pendingMessages,
                   cdrains, qvars, rvars, bvars, avars>>

\* drainWorkspaceToolQueue of call k: readFile and normalizeQueueSnapshot.
DrainRead(k) ==
    /\ k \in DOMAIN run
    /\ run[k].pc = "closed"
    /\ run' = [run EXCEPT ![k].pc = "read", ![k].read = drainResult(qfile),
                          ![k].readQuiet = quiet]
    /\ UNCHANGED <<qfile, prod, quiet, nwrites, drains, pending,
                   pendingMessages, cdrains, qvars, rvars, bvars, avars>>

\* drainWorkspaceToolQueue of call k: the finally block; writeFile opens the
\* file, which truncates it.
DrainResetOpen(k) ==
    /\ k \in DOMAIN run
    /\ run[k].pc = "read"
    /\ qfile' = Truncated
    /\ quiet' = TRUE
    /\ run' = [run EXCEPT ![k].pc = "clearing"]
    /\ UNCHANGED <<prod, nwrites, drains, pending, pendingMessages, cdrains,
                   qvars, rvars, bvars, avars>>

\* drainWorkspaceToolQueue of call k: writeFile writes the empty queue and
\* resolves, and the drain returns what it read.
DrainReset(k) ==
    /\ k \in DOMAIN run
    /\ run[k].pc = "clearing"
    /\ qfile' = ResetWritten(run[k].orphan)
    /\ drains' = MapSet(drains, k, [run |-> k, uploads |-> run[k].read.uploads,
                                    messages |-> run[k].read.messages,
                                    stale |-> run[k].stale,
                                    quiet |-> run[k].readQuiet])
    /\ run' = [run EXCEPT ![k] = AgentCall("done")]
    /\ UNCHANGED <<prod, quiet, nwrites, pending, pendingMessages, cdrains,
                   qvars, rvars, bvars, avars>>

\* UploadCollector.collect(filePath)
Collect(filePath) ==
    /\ Len(pending) < MaxCollect
    /\ pending' = Append(pending, filePath)
    /\ UNCHANGED <<qfile, prod, run, quiet, nwrites, drains, pendingMessages,
                   cdrains, qvars, rvars, bvars, avars>>

\* UploadCollector.collectMessage(message)
CollectMessage(message) ==
    /\ Len(pendingMessages) < MaxCollect
    /\ pendingMessages' = IF Trim(message) = "" THEN pendingMessages
                          ELSE Append(pendingMessages, message)
    /\ UNCHANGED <<qfile, prod, run, quiet, nwrites, drains, pending, cdrains,
                   qvars, rvars, bvars, avars>>

\* The list drain() / drainMessages() leaves behind.
drainLeaves(list) == <<>>

\* UploadCollector.drain(); cdrains.files is what the last call returned.
CollectorDrain ==
    /\ pending' = drainLeaves(pending)
    /\ cdrains' = [cdrains EXCEPT !.files = pending]
    /\ UNCHANGED <<qfile, prod, run, quiet, nwrites, drains, pendingMessages,
                   qvars, rvars, bvars, avars>>

\* UploadCollector.drainMessages(); cdrains.messages is what the last call
\* returned.
CollectorDrainMessages ==
    /\ pendingMessages' = drainLeaves(pendingMessages)
    /\ cdrains' = [cdrains EXCEPT !.messages = pendingMessages]
    /\ UNCHANGED <<qfile, prod, run, quiet, nwrites, drains, pending, qvars,
                   rvars, bvars, avars>>

ToolInit ==
    /\ qfile = NoFile
    /\ prod = [p \in Producers |-> Idle]
    /\ run = <<>>
    /\ quiet = FALSE
    /\ nwrites = 0
    /\ drains = EmptyMap
    /\ pending = <<>>
    /\ pendingMessages = <<>>
    /\ cdrains = [files |-> <<>>, messages |-> <<>>]

\* The workspace's queue file under runAgent calls, the runs' sessions and
\* the scheduler session.
ToolNext ==
    \/ \E p \in Producers, path \in Paths : QueueUploadLoad(p, path)
    \/ \E p \in Producers, message \in Texts : QueueMessageLoad(p, message)
    \/ \E p \in Producers : SaveQueueOpen(p)
    \/ \E p \in Producers : SaveQueueWrite(p)
    \/ RunAgent
    \/ \E k \in Calls : ResetBeforeRunOpen(k)
    \/ \E k \in Calls : ResetBeforeRun(k)
    \/ \E k \in Calls : RunClose(k)
    \/ \E k \in Calls : RunCrash(k)
    \/ \E k \in Calls : DrainRead(k)
    \/ \E k \in Calls : DrainResetOpen(k)
    \/ \E k \in Calls : DrainReset(k)

\* What the tools and the collector are given in DrainNext.
DrainPaths == {"out/a.txt"}

DrainTexts == {"hi", " "}

\* What the queue file can hold when it is not a queue: nothing, or entries
\* in a value of the wrong shape.
CorruptFiles ==
    LET upload == [val |-> "out/a.txt", wid |-> 1, by |-> "session", run |-> 1]
        message == [val |-> "hi", wid |-> 2, by |-> "session", run |-> 1]
    IN  {NoFile, Truncated}
        \cup {[kind |-> k, uploads |-> <<upload>>, messages |-> <<message>>] :
                 k \in FileKinds \ {"ok", "missing", "empty"}}

\* The handles of a file that has been removed lead to no path any more.
Orphaned(writers, open) ==
    [w \in DOMAIN writers |->
        IF writers[w].pc \in open THEN [writers[w] EXCEPT !.orphan = TRUE]
        ELSE writers[w]]

\* The queue file is removed, emptied or overwritten by something that
\* does not write a queue (an interrupted write, the agent's shell).
CorruptFile(file) ==
    /\ nwrites < MaxWrites
    /\ nwrites' = nwrites + 1
    /\ qfile # file
    /\ qfile' = file
    /\ quiet' = FALSE
    /\ run' = IF file.kind = "missing"
              THEN Orphaned(run, {"resetting", "clearing"}) ELSE run
    /\ prod' = IF file.kind = "missing" THEN Orphaned(prod, {"opened"})
               ELSE prod
    /\ UNCHANGED <<drains, pending, pendingMessages, cdrains, qvars, rvars,
                   bvars, avars>>

\* The queue file under runAgent calls and corruption.
CorruptNext ==
    \/ \E file \in CorruptFiles : CorruptFile(file)
    \/ RunAgent
    \/ \E k \in Calls : ResetBeforeRunOpen(k)
    \/ \E k \in Calls : ResetBeforeRun(k)
    \/ \E k \in Calls : RunClose(k)
    \/ \E k \in Calls : DrainRead(k)
    \/ \E k \in Calls : DrainResetOpen(k)
    \/ \E k \in Calls : DrainReset(k)

\* The calls of runAgent made in the model are over.
CallsOver ==
    /\ Len(run) = MaxRuns
    /\ \A k \in DOMAIN run : run[k].pc \in {"done", "crashed"}

\* The queue file with the runs' own sessions as its only producers, and an
\* UploadCollector.  The collector shares no state with the queue file, so
\* it is exercised once the runAgent calls are over.
DrainNext ==
    \/ /\ nwrites < MaxDrainWrites
       /\ \E p \in Calls, path \in DrainPaths : QueueUploadLoad(p, path)
    \/ /\ nwrites < MaxDrainWrites
       /\ \E p \in Calls, message \in DrainTexts : QueueMessageLoad(p, message)
    \/ \E p \in Calls : SaveQueueOpen(p)
    \/ \E p \in Calls : SaveQueueWrite(p)
    \/ RunAgent
    \/ \E k \in Calls : ResetBeforeRunOpen(k)
    \/ \E k \in Calls : ResetBeforeRun(k)
    \/ \E k \in Calls : RunClose(k)
    \/ \E k \in Calls : RunCrash(k)
    \/ \E k \in Calls : DrainRead(k)
    \/ \E k \in Calls : DrainResetOpen(k)
    \/ \E k \in Calls : DrainReset(k)
    \/ CallsOver /\ \E path \in DrainPaths : Collect(path)
    \/ CallsOver /\ \E message \in DrainTexts : CollectMessage(message)
    \/ CallsOver /\ CollectorDrain
    \/ CallsOver /\ CollectorDrainMessages

(***************************************************************************)
(* runAgent: the persisted session id of one workspace                     *)
(* (agent/upload-tool.ts, runAgent; the store is agent/sessions.ts).       *)
(* Nothing in runAgent keeps two calls on one workspace apart: a call can  *)
(* be made while earlier ones are between their read of the store and      *)
(* their write to it.                                                      *)
(***************************************************************************)
\* runAgent calls made on the workspace by this process.
MaxAgentRuns == 2

\* The runAgent calls of a run of the model, in call order.
AgentCalls == 1 .. MaxAgentRuns

\* Session ids the runtime reports (message.session_id).
SessionIds == {"s1", "s2"}
\* No stored session id: getSessionId gives a falsy value.
NoSession == ""

FILE_SEND_TOOL_CANDIDATES == {"SendFileToChat", "send_file_to_chat"}

\* Tool catalogues a system event reports (message.tools ?? []).
ToolCatalogs ==
    {{"SendFileToChat", "read_file"}, {"send_file_to_chat"}, {"read_file"},
     {}}

\* The session store: one string per workspace.
getSessionId == persisted

saveSessionId(sessionId) == sessionId

clearSessionId == NoSession

\* The sessionId option of query(): present when a session id was stored.
ResumeOption(existingSessionId) ==
    IF existingSessionId # NoSession THEN existingSessionId ELSE Missing

\* A call that holds nothing: before its read of the store, and once it has
\* written to it.
IdleRun ==
    [pc |-> "idle", existingSessionId |-> NoSession, sessionId |-> "",
     missingFileSendTools |-> FALSE]

\* The calls that have returned or thrown.
CallsReturned == {k \in DOMAIN srun : srun[k].pc = "over"}

\* The store outlives the process: a run of an earlier process has left its
\* session id in it before the first call of this one.
EarlierRunSaved(sessionId) ==
    /\ srun = <<>>
    /\ persisted = NoSession
    /\ persisted' = saveSessionId(sessionId)
    /\ UNCHANGED <<srun, slog, pcall, fin, qvars, rvars, bvars, tvars,
                   hvars, fcall>>

\* The writes (clears and saves) the calls have made to the store so far.
StoreWrites == Cardinality({k \in DOMAIN slog : slog[k].order > 0})

\* runAgent up to query(): the stored id is read and offered for
\* resumption, whatever the earlier calls are doing.  before: the calls that
\* were over by then; writes: the writes made to the store by then.
AgentRunStart ==
    /\ Len(srun) < MaxAgentRuns
    /\ srun' = Append(srun, [IdleRun EXCEPT !.pc = "streaming",
                                            !.existingSessionId = getSessionId])
    /\ slog' = Append(slog, [existingSessionId |-> getSessionId,
                             resume |-> ResumeOption(getSessionId),
                             before |-> CallsReturned,
                             writes |-> StoreWrites, order |-> 0,
                             state |-> "running", reported |-> "",
                             sessionId |-> "",
                             missingFileSendTools |-> FALSE,
                             persisted |-> NoSession,
                             atReturn |-> NoSession])
    /\ UNCHANGED <<persisted, pcall, fin, qvars, rvars, bvars, tvars,
                   hvars, fcall>>

\* A system event of call k: its session id is kept, its tool list is
\* looked at.
SystemEvent(k, session_id, tools) ==
    /\ k \in DOMAIN srun
    /\ srun[k].pc = "streaming"
    /\ srun' = [srun EXCEPT
                  ![k].sessionId = session_id,
                  ![k].missingFileSendTools =
                      @ \/ (FILE_SEND_TOOL_CANDIDATES \cap tools = {})]
    /\ UNCHANGED <<persisted, slog, pcall, fin, qvars, rvars, bvars, tvars,
                   hvars, fcall>>

\* A result event of call k: its session id is kept.
ResultEvent(k, session_id) ==
    /\ k \in DOMAIN srun
    /\ srun[k].pc = "streaming"
    /\ srun' = [srun EXCEPT ![k].sessionId = session_id]
    /\ UNCHANGED <<persisted, slog, pcall, fin, qvars, rvars, bvars, tvars,
                   hvars, fcall>>

\* A store that is never cleared.
clearedNever(missingFileSendTools, existingSessionId) == FALSE

\* What is stored once the stream is over (lines 992-1002).
clearedWhenDegraded(missingFileSendTools, existingSessionId) ==
    missingFileSendTools /\ existingSessionId # NoSession

StoreAfterRun(sessionId, missingFileSendTools, existingSessionId) ==
    LET cleared == clearedWhenDegraded(missingFileSendTools, existingSessionId)
        afterClear == IF cleared THEN clearSessionId ELSE persisted
    IN  IF sessionId # "" /\ ~cleared
        THEN saveSessionId(sessionId)
        ELSE afterClear

\* The stream of call k ends: the session id falls back to
\* q.getSessionId(), and the call awaits q.close().
AgentStreamEnd(k, querySessionId) ==
    /\ k \in DOMAIN srun
    /\ srun[k].pc = "streaming"
    /\ srun' = [srun EXCEPT ![k].pc = "closing",
                            ![k].sessionId =
                                IF @ = "" THEN querySessionId ELSE @]
    /\ slog' = [slog EXCEPT ![k].reported = srun[k].sessionId]
    /\ UNCHANGED <<persisted, pcall, fin, qvars, rvars, bvars, tvars,
                   hvars, fcall>>

\* Whether the call clears or saves: a run with no session id and nothing
\* to clear leaves the store alone.
WritesStore(sessionId, missingFileSendTools, existingSessionId) ==
    \/ clearedWhenDegraded(missingFileSendTools, existingSessionId)
    \/ sessionId # ""

\* q.close() of call k has returned: the stored id is cleared or saved, and
\* the call goes on to the drain.  order: the place of its write among the
\* writes to the store.
AgentRunEnd(k) ==
    /\ k \in DOMAIN srun
    /\ srun[k].pc = "closing"
    /\ LET stored == StoreAfterRun(srun[k].sessionId,
                                   srun[k].missingFileSendTools,
                                   srun[k].existingSessionId)
           written == WritesStore(srun[k].sessionId,
                                  srun[k].missingFileSendTools,
                                  srun[k].existingSessionId)
       IN  /\ persisted' = stored
           /\ slog' = [slog EXCEPT ![k] =
                         [@ EXCEPT !.state = "stored",
                                   !.sessionId = srun[k].sessionId,
                                   !.missingFileSendTools =
                                       srun[k].missingFileSendTools,
                                   !.persisted = stored,
                                   !.order = IF written THEN StoreWrites + 1
                                             ELSE 0]]
    /\ srun' = [srun EXCEPT ![k] = [IdleRun EXCEPT !.pc = "draining"]]
    /\ UNCHANGED <<pcall, fin, qvars, rvars, bvars, tvars,
                   hvars, fcall>>

\* The drain and the upload policy of call k are done: runAgent returns.
AgentRunReturn(k) ==
    /\ k \in DOMAIN srun
    /\ srun[k].pc = "draining"
    /\ slog' = [slog EXCEPT ![k].state = "completed",
                            ![k].atReturn = getSessionId]
    /\ srun' = [srun EXCEPT ![k].pc = "over"]
    /\ UNCHANGED <<persisted, pcall, fin, qvars, rvars, bvars, tvars,
                   hvars, fcall>>

\* The stream of call k throws: runAgent rejects before it clears or saves
\* anything.
AgentRunThrows(k) ==
    /\ k \in DOMAIN srun
    /\ srun[k].pc = "streaming"
    /\ slog' = [slog EXCEPT ![k] =
                  [@ EXCEPT !.state = "failed",
                            !.reported = srun[k].sessionId,
                            !.sessionId = srun[k].sessionId,
                            !.missingFileSendTools =
                                srun[k].missingFileSendTools]]
    /\ srun' = [srun EXCEPT ![k] = [IdleRun EXCEPT !.pc = "over"]]
    /\ UNCHANGED <<persisted, pcall, fin, qvars, rvars, bvars, tvars,
                   hvars, fcall>>

SessionInit ==
    /\ persisted = NoSession
    /\ srun = <<>>
    /\ slog = <<>>

SessionNext ==
    \/ \E sessionId \in SessionIds : EarlierRunSaved(sessionId)
    \/ AgentRunStart
    \/ \E k \in AgentCalls, session_id \in SessionIds, tools \in ToolCatalogs :
           SystemEvent(k, session_id, tools)
    \/ \E k \in AgentCalls, session_id \in SessionIds :
           ResultEvent(k, session_id)
    \/ \E k \in AgentCalls, querySessionId \in SessionIds \cup {""} :
           AgentStreamEnd(k, querySessionId)
    \/ \E k \in AgentCalls : AgentRunEnd(k)
    \/ \E k \in AgentCalls : AgentRunReturn(k)
    \/ \E k \in AgentCalls : AgentRunThrows(k)

(***************************************************************************)
(* Strings, as JavaScript and node:path treat them.                        *)
(***************************************************************************)
CharAt(s, i) == SubSeq(s, i, i)

CharsOf(s) == {CharAt(s, i) : i \in 1 .. Len(s)}

StartsWith(s, prefix) ==
    Len(prefix) <= Len(s) /\ SubSeq(s, 1, Len(prefix)) = prefix

EndsWith(s, suffix) ==
    Len(suffix) <= Len(s) /\ SubSeq(s, Len(s) - Len(suffix) + 1, Len(s)) = suffix

\* s.slice(i) with positions counted from 1.
SliceFrom(s, i) == SubSeq(s, i, Len(s))

\* The substring w stands at position i of s.
At(s, i, w) == i >= 1 /\ i + Len(w) - 1 <= Len(s) /\ SubSeq(s, i, i + Len(w) - 1) = w

MaxOf(S) == CHOOSE x \in S : \A y \in S : y <= x

\* The characters of the model's strings in code-unit order.
Ascii ==
    "\n !(),-./0123456789:;<>?ABCDEFGHIJKLMNOPQRSTUVWXYZ[]_abcdefghijklmnopqrstuvwxyz{}"

Code(c) == CHOOSE i \in 1 .. Len(Ascii) : CharAt(Ascii, i) = c

UpperLetters == "ABCDEFGHIJKLMNOPQRSTUVWXYZ"

LowerLetters == "abcdefghijklmnopqrstuvwxyz"

Digits == "0123456789"

\* \w of a regular expression.
WordChars == CharsOf(UpperLetters) \cup CharsOf(LowerLetters) \cup CharsOf(Digits) \cup {"_"}

\* \s of a regular expression.
SpaceChars == {" ", "\n"}

UpperChars == CharsOf(UpperLetters)

LowerChar(c) ==
    IF c \in UpperChars
    THEN CharAt(LowerLetters, CHOOSE i \in 1 .. 26 : CharAt(UpperLetters, i) = c)
    ELSE c

\* String.prototype.toLowerCase
RECURSIVE toLowerCase(_)
toLowerCase(s) ==
    IF s = "" THEN "" ELSE LowerChar(Head(s)) \o toLowerCase(Tail(s))

\* a < b for strings: by code units, a proper prefix first.
RECURSIVE StringLess(_, _)
StringLess(a, b) ==
    IF b = "" THEN FALSE
    ELSE IF a = "" THEN TRUE
    ELSE IF Head(a) = Head(b) THEN StringLess(Tail(a), Tail(b))
    ELSE Code(Head(a)) < Code(Head(b))

\* String.prototype.trim
RECURSIVE trimStart(_)
trimStart(s) ==
    IF s # "" /\ Head(s) \in SpaceChars THEN trimStart(Tail(s)) ELSE s

RECURSIVE trimEnd(_)
trimEnd(s) ==
    IF s # "" /\ CharAt(s, Len(s)) \in SpaceChars
    THEN trimEnd(SubSeq(s, 1, Len(s) - 1))
    ELSE s

trim(s) == trimEnd(trimStart(s))

\* Array.from(new Set(list)): the first occurrence of every element.
RECURSIVE Unique(_)
Unique(list) ==
    IF list = <<>> THEN <<>>
    ELSE LET front == Unique(SubSeq(list, 1, Len(list) - 1))
             last == list[Len(list)]
         IN  IF \E k \in 1 .. Len(front) : front[k] = last
             THEN front
             ELSE Append(front, last)

\* list.join(sep)
RECURSIVE JoinWith(_, _)
JoinWith(list, sep) ==
    IF list = <<>> THEN ""
    ELSE IF Len(list) = 1 THEN list[1]
    ELSE list[1] \o sep \o JoinWith(Tail(list), sep)

\* The parts of a path between its slashes, empty parts included.
RECURSIVE Segments(_, _)
Segments(s, cur) ==
    IF s = "" THEN <<cur>>
    ELSE IF Head(s) = "/" THEN <<cur>> \o Segments(Tail(s), "")
    ELSE Segments(Tail(s), cur \o Head(s))

\* Resolution of "." and ".." over the parts of an absolute path.
RECURSIVE Normalize(_, _)
Normalize(segs, stack) ==
    IF segs = <<>> THEN stack
    ELSE LET h == Head(segs)
         IN  Normalize(Tail(segs),
                 IF h \in {"", "."} THEN stack
                 ELSE IF h = ".."
                      THEN (IF stack = <<>> THEN stack
                            ELSE SubSeq(stack, 1, Len(stack) - 1))
                      ELSE Append(stack, h))

\* process.cwd() of the server.
Cwd == "/app"

\* path.resolve(p)
pathResolve(p) ==
    LET abs == IF StartsWith(p, "/") THEN p ELSE Cwd \o "/" \o p
    IN  "/" \o JoinWith(Normalize(Segments(abs, ""), <<>>), "/")

\* path.join(dir, name), normalised.
join(dir, name) ==
    LET segs == Normalize(Segments(dir \o "/" \o name, ""), <<>>)
    IN  (IF StartsWith(dir, "/") THEN "/" ELSE "") \o JoinWith(segs, "/")

\* path.basename(p)
basename(p) ==
    LET segs == SelectSeq(Segments(p, ""), LAMBDA x : x # "")
    IN  IF segs = <<>> THEN "" ELSE segs[Len(segs)]

\* path.relative(from, to) of two resolved paths.
relative(from, to) ==
    LET f == Normalize(Segments(from, ""), <<>>)
        t == Normalize(Segments(to, ""), <<>>)
        common == MaxOf({k \in 0 .. Len(f) :
                           k <= Len(t) /\ SubSeq(f, 1, k) = SubSeq(t, 1, k)})
        ups == [k \in 1 .. Len(f) - common |-> ".."]
    IN  JoinWith(ups \o SubSeq(t, common + 1, Len(t)), "/")

(***************************************************************************)
(* The upload-selection policy (agent/upload-tool.ts, lines 477-691).      *)
(***************************************************************************)
\* The workspace directory of the run (already resolved by runAgent).
WorkspaceDir == "/ws"

BLOCKED_UPLOAD_PREFIXES == {".papert/tools", ".papert/.papert-claw-runtime"}

\* Modification time of a file statSync cannot read.
NEGATIVE_INFINITY == -1

\* A file system: the paths that exist, each with its modification time.
existsSync(fs, p) == p \in DOMAIN fs

mtimeMs(fs, p) == IF p \in DOMAIN fs THEN fs[p] ELSE NEGATIVE_INFINITY

IsWordAt(s, i) == i >= 1 /\ i <= Len(s) /\ CharAt(s, i) \in WordChars

\* \b of a regular expression, before position i.
WordBoundary(s, i) == IsWordAt(s, i - 1) # IsWordAt(s, i)

\* \bw\b stands at position i.
WordAt(s, i, w) == At(s, i, w) /\ WordBoundary(s, i) /\ WordBoundary(s, i + Len(w))

HasWord(s, words) == \E w \in words : \E i \in 1 .. Len(s) : WordAt(s, i, w)

UploadVerbs == {"attach", "upload", "send", "share"}

\* /\b(attach|upload|send|share)\b/i
hasUploadIntent(userMessage) == HasWord(toLowerCase(userMessage), UploadVerbs)

\* Characters of the class [^\s"'`<>] among the characters of the model.
NameChars == CharsOf(Ascii) \ (SpaceChars \cup {"<", ">"})

\* Characters of the class [A-Za-z0-9_-].
ExtChars == WordChars \cup {"-"}

\* The last position of the run of name characters that starts at i
\* (i - 1 when there is none).
RECURSIVE RunEnd(_, _)
RunEnd(s, i) ==
    IF i <= Len(s) /\ CharAt(s, i) \in NameChars THEN RunEnd(s, i + 1) ELSE i - 1

\* The last position of the run of extension characters that starts at i.
RECURSIVE ExtEnd(_, _)
ExtEnd(s, i) ==
    IF i <= Len(s) /\ CharAt(s, i) \in ExtChars THEN ExtEnd(s, i + 1) ELSE i - 1

\* The matches of /[^\s"'`<>]+\.[A-Za-z0-9_-]+/g in s from position i on:
\* the first part is greedy, so the match at i uses the last dot of the run
\* that an extension character follows.
RECURSIVE FileNameMatches(_, _)
FileNameMatches(s, i) ==
    IF i > Len(s) THEN <<>>
    ELSE LET dots == {d \in (i + 1) .. RunEnd(s, i) :
                        /\ CharAt(s, d) = "."
                        /\ d + 1 <= Len(s)
                        /\ CharAt(s, d + 1) \in ExtChars}
         IN  IF dots = {} THEN FileNameMatches(s, i + 1)
             ELSE LET e == ExtEnd(s, MaxOf(dots) + 1)
                  IN  <<SubSeq(s, i, e)>> \o FileNameMatches(s, e + 1)

\* replace(/^[([{"'`]+|[)\]}"'`,.;:!?]+$/g, "")
RECURSIVE StripLeading(_)
StripLeading(s) ==
    IF s # "" /\ Head(s) \in {"(", "[", "{"} THEN StripLeading(Tail(s)) ELSE s

RECURSIVE StripTrailing(_)
StripTrailing(s) ==
    IF s # "" /\ CharAt(s, Len(s)) \in {")", "]", "}", ",", ".", ";", ":", "!", "?"}
    THEN StripTrailing(SubSeq(s, 1, Len(s) - 1))
    ELSE s

inferRequestedFileNames(userMessage) ==
    LET matches == FileNameMatches(userMessage, 1)
        stripped == [k \in DOMAIN matches |-> StripTrailing(StripLeading(trim(matches[k])))]
        kept == SelectSeq(stripped, LAMBDA v : v # "")
    IN  Unique([k \in DOMAIN kept |-> basename(kept[k])])

AllSpace(s, i, j) == \A k \in i .. j : CharAt(s, k) \in SpaceChars

shouldAutoSelectLatestUpload(userMessage) ==
    LET lower == toLowerCase(userMessage)
        P == 1 .. Len(lower)
        \* /\b(attach|upload|send|share)\s+(this|that|it)\b/
        verbThis ==
            \E v \in UploadVerbs : \E i \in P :
                /\ At(lower, i, v) /\ WordBoundary(lower, i)
                /\ \E w \in {"this", "that", "it"} : \E j \in P :
                       /\ At(lower, j, w) /\ WordBoundary(lower, j + Len(w))
                       /\ j > i + Len(v) /\ AllSpace(lower, i + Len(v), j - 1)
        \* /\b(this|that|the)\s+file\b/
        theFile ==
            \E w \in {"this", "that", "the"} : \E i \in P :
                /\ At(lower, i, w) /\ WordBoundary(lower, i)
                /\ \E j \in P :
                       /\ At(lower, j, "file") /\ WordBoundary(lower, j + 4)
                       /\ j > i + Len(w) /\ AllSpace(lower, i + Len(w), j - 1)
        \* /\b(attach|upload|send|share)\b[\s\w]*(file|attachment)\b/
        verbFile ==
            \E v \in UploadVerbs : \E i \in P :
                /\ WordAt(lower, i, v)
                /\ \E w \in {"file", "attachment"} : \E j \in P :
                       /\ At(lower, j, w) /\ WordBoundary(lower, j + Len(w))
                       /\ j >= i + Len(v)
                       /\ \A k \in (i + Len(v)) .. (j - 1) :
                              CharAt(lower, k) \in SpaceChars \cup WordChars
    IN  IF ~hasUploadIntent(userMessage) THEN FALSE
        ELSE IF Len(inferRequestedFileNames(userMessage)) > 0 THEN FALSE
        ELSE verbThis \/ theFile \/ verbFile

shouldAutoSelectAllUploads(userMessage) ==
    LET lower == toLowerCase(userMessage)
    IN  IF ~hasUploadIntent(userMessage) THEN FALSE
        ELSE IF Len(inferRequestedFileNames(userMessage)) > 0 THEN FALSE
        ELSE HasWord(lower, {"files", "attachments"}) \/ HasWord(lower, {"both"})

isAttachmentCandidate(absPath, workspaceRoot) ==
    StartsWith(relative(workspaceRoot, absPath), "attachments/")

getAutoSelectionPriority(absPath, workspaceRoot) ==
    IF StartsWith(relative(workspaceRoot, absPath), "attachments/") THEN 3
    ELSE IF toLowerCase(basename(absPath)) = "session.json" THEN 1
    ELSE 2

isUploadPathBlocked(absPath, workspaceDir) ==
    LET rel == relative(workspaceDir, absPath)
    IN  IF rel = "" \/ rel = "." \/ StartsWith(rel, "..") THEN TRUE
        ELSE \E prefix \in BLOCKED_UPLOAD_PREFIXES :
                 rel = prefix \/ StartsWith(rel, prefix \o "/")

\* The first three checks of the loop (lines 566-578) on a resolved path.
InsideWorkspace(abs, workspaceRoot) ==
    StartsWith(abs, workspaceRoot \o "/") \/ abs = workspaceRoot

\* The checks without the look on disk.
PassesUnseen(fs, abs, workspaceRoot) ==
    /\ StartsWith(abs, workspaceRoot \o "/") \/ abs = workspaceRoot
    /\ ~isUploadPathBlocked(abs, workspaceRoot)

PassesChecks(fs, abs, workspaceRoot) ==
    /\ InsideWorkspace(abs, workspaceRoot)
    /\ existsSync(fs, abs)
    /\ ~isUploadPathBlocked(abs, workspaceRoot)

\* requestedSet.has(lowerBase) || requested.some(name => lowerPath.endsWith(name))
matchedRequestedName(abs, requested) ==
    LET lowerPath == toLowerCase(abs)
        lowerBase == basename(lowerPath)
    IN  \/ \E k \in DOMAIN requested : requested[k] = lowerBase
        \/ \E k \in DOMAIN requested : EndsWith(lowerPath, requested[k])

\* The send-everything choice (lines 599-607).
selectAll(autoCandidates, workspaceRoot) ==
    LET attachmentCandidates ==
            SelectSeq(autoCandidates, LAMBDA p : isAttachmentCandidate(p, workspaceRoot))
        chosen ==
            IF Len(attachmentCandidates) > 0 THEN attachmentCandidates
            ELSE SelectSeq(autoCandidates,
                           LAMBDA p : toLowerCase(basename(p)) # "session.json")
    IN  IF Len(chosen) > 0 THEN chosen ELSE autoCandidates

\* A turn of the loop that looks at the priority tier alone.
latestStepByTier(fs, sel, path, workspaceRoot) ==
    LET priority == getAutoSelectionPriority(path, workspaceRoot)
    IN  IF priority > sel.priority
        THEN [selected |-> path, mtime |-> mtimeMs(fs, path), priority |-> priority]
        ELSE sel

\* One turn of the send-latest loop (lines 628-644): sel holds selected,
\* selectedMtime and selectedPriority.
latestStep(fs, sel, path, workspaceRoot) ==
    LET mtime == mtimeMs(fs, path)
        priority == getAutoSelectionPriority(path, workspaceRoot)
    IN  IF \/ priority > sel.priority
           \/ /\ priority = sel.priority
              /\ \/ mtime > sel.mtime
                 \/ (mtime = sel.mtime /\ StringLess(sel.selected, path))
        THEN [selected |-> path, mtime |-> mtime, priority |-> priority]
        ELSE sel

RECURSIVE latestLoop(_, _, _, _)
latestLoop(fs, sel, paths, workspaceRoot) ==
    IF paths = <<>> THEN sel
    ELSE latestLoop(fs, latestStep(fs, sel, Head(paths), workspaceRoot),
                    Tail(paths), workspaceRoot)

selectLatest(fs, autoCandidates, workspaceRoot) ==
    latestLoop(fs, [selected |-> autoCandidates[1], mtime |-> NEGATIVE_INFINITY,
                    priority |-> NEGATIVE_INFINITY],
               autoCandidates, workspaceRoot).selected

\* The candidates that passed the checks, accepted whatever the text says.
acceptedUngated(fs, passing, requested, autoSelectLatest, autoSelectAll, workspaceRoot) ==
    Unique(passing)

\* A variant in which the send-latest choice comes first.
acceptedLatestFirst(fs, passing, requested, autoSelectLatest, autoSelectAll, workspaceRoot) ==
    LET named == SelectSeq(passing, LAMBDA abs : matchedRequestedName(abs, requested))
        autoCandidates == IF autoSelectLatest \/ autoSelectAll THEN passing ELSE <<>>
    IN  IF requested # <<>> THEN Unique(named)
        ELSE IF autoCandidates = <<>> THEN <<>>
        ELSE IF autoSelectLatest
             THEN <<selectLatest(fs, autoCandidates, workspaceRoot)>>
        ELSE IF autoSelectAll THEN Unique(selectAll(autoCandidates, workspaceRoot))
        ELSE <<>>

\* Lines 579-660: what is accepted among the candidates that passed the
\* checks, given the names and the signals found in the text.
acceptedOf(fs, passing, requested, autoSelectLatest, autoSelectAll, workspaceRoot) ==
    LET named == SelectSeq(passing, LAMBDA abs : matchedRequestedName(abs, requested))
        autoCandidates == IF autoSelectLatest \/ autoSelectAll THEN passing ELSE <<>>
    IN  IF requested # <<>> THEN Unique(named)
        ELSE IF autoCandidates = <<>> THEN <<>>
        ELSE IF autoSelectAll THEN Unique(selectAll(autoCandidates, workspaceRoot))
        ELSE IF autoSelectLatest
             THEN <<selectLatest(fs, autoCandidates, workspaceRoot)>>
        ELSE <<>>

\* One enforceUploadPolicy call: what it returns (the accepted paths, in the
\* order of the Set) and the locals it decides on.
policyCall(fs, uploadPaths, userMessage, workspaceDir) ==
    LET workspaceRoot == pathResolve(workspaceDir)
        names == inferRequestedFileNames(userMessage)
        requested == [k \in DOMAIN names |-> toLowerCase(names[k])]
        autoSelectLatest == requested = <<>> /\ shouldAutoSelectLatestUpload(userMessage)
        autoSelectAll == requested = <<>> /\ shouldAutoSelectAllUploads(userMessage)
        resolved == [k \in DOMAIN uploadPaths |-> pathResolve(uploadPaths[k])]
        passing == SelectSeq(resolved, LAMBDA abs : PassesChecks(fs, abs, workspaceRoot))
    IN  [accepted |-> acceptedOf(fs, passing, requested, autoSelectLatest,
                                 autoSelectAll, workspaceRoot),
         requested |-> requested,
         autoSelectLatest |-> autoSelectLatest, autoSelectAll |-> autoSelectAll]

enforceUploadPolicy(fs, uploadPaths, userMessage, workspaceDir) ==
    policyCall(fs, uploadPaths, userMessage, workspaceDir).accepted

(***************************************************************************)
(* enforceUploadPolicy under bounded inputs.                               *)
(***************************************************************************)
\* Longest list of candidates given to the policy.
MaxCands == 2

\* The files and directories on disk, apart from their modification times.
PolicyFiles ==
    {"/ws", "/ws/a.pdf", "/ws/b.csv", "/ws/xb.csv", "/ws/attachments",
     "/ws/attachments/x.png", "/ws/attachments/y.png", "/ws/session.json",
     "/ws/.papert/tools/t.mjs", "/ws-evil/b.csv"}

\* The file systems of the model, each file with its modification time: all
\* files of one age, or two of them newer.
FileSystems ==
    {[p \in PolicyFiles |-> IF p \in newer THEN 2 ELSE 1] :
        newer \in {{}, {"/ws/attachments/x.png", "/ws/a.pdf"}}}

\* Candidate paths: files of the workspace, a reserved path, a path that
\* leaves the workspace for a sibling directory, a missing file, the root.
PolicyPaths ==
    {"/ws/a.pdf", "/ws/b.csv", "/ws/xb.csv", "/ws/attachments/x.png",
     "/ws/attachments/y.png", "/ws/session.json", "/ws/.papert/tools/t.mjs",
     "/ws/../ws-evil/b.csv", "/ws/gone.csv", "/ws"}

\* Texts of the user.
PolicyTexts ==
    {"attach b.csv", "send a.pdf and (docs/B.CSV)", "send that file",
     "please share it.", "Send the files", "share the attachment files",
     "resend that file", "send"}

PolicySources == {"queued", "fallback_request", "fallback_model"}

SeqsUpTo(S, n) == UNION {[1 .. k -> S] : k \in 0 .. n}

\* What is observed of one call: its arguments, its locals, its result.
PolicyRecord(fs, uploadPaths, userMessage, source) ==
    LET call == policyCall(fs, uploadPaths, userMessage, WorkspaceDir)
    IN  [fs |-> fs, uploadPaths |-> uploadPaths, userMessage |-> userMessage,
         source |-> source, called |-> TRUE, requested |-> call.requested,
         autoSelectLatest |-> call.autoSelectLatest,
         autoSelectAll |-> call.autoSelectAll, result |-> call.accepted]

\* One call of enforceUploadPolicy (the function keeps nothing between calls).
EnforceUploadPolicy(fs, uploadPaths, userMessage, source) ==
    /\ ~pcall.called
    /\ pcall' = PolicyRecord(fs, uploadPaths, userMessage, source)
    /\ UNCHANGED <<persisted, srun, slog, fin, qvars, rvars, bvars, tvars,
                   hvars, fcall>>

PolicyInit ==
    pcall = [fs |-> <<>>, uploadPaths |-> <<>>, userMessage |-> "",
             source |-> "", called |-> FALSE, requested |-> <<>>,
             autoSelectLatest |-> FALSE, autoSelectAll |-> FALSE,
             result |-> <<>>]

PolicyNext ==
    /\ ~pcall.called
    /\ \E fs \in FileSystems, uploadPaths \in SeqsUpTo(PolicyPaths, MaxCands),
          userMessage \in PolicyTexts, source \in PolicySources :
           EnforceUploadPolicy(fs, uploadPaths, userMessage, source)

(***************************************************************************)
(* runAgent after the drain: the choice of uploads, messages and text      *)
(* (agent/upload-tool.ts, lines 1004-1065).                                *)
(***************************************************************************)
\* Longest list of uploads in the drained queue.
MaxQueued == 1
\* Number of content strings observed on assistant and user events.
MaxObserved == 1

\* The last position of the run of characters outside stops that starts at i.
RECURSIVE TokenEnd(_, _, _)
TokenEnd(s, i, stops) ==
    IF i <= Len(s) /\ CharAt(s, i) \notin stops THEN TokenEnd(s, i + 1, stops)
    ELSE i - 1

\* The matches of /prefix[^stops]+/g in s from position i on.
RECURSIVE PrefixedTokens(_, _, _, _)
PrefixedTokens(s, i, prefix, stops) ==
    IF i > Len(s) THEN <<>>
    ELSE LET from == i + Len(prefix)
             end == TokenEnd(s, from, stops)
         IN  IF At(s, i, prefix) /\ end >= from
             THEN <<SubSeq(s, i, end)>> \o PrefixedTokens(s, end + 1, prefix, stops)
             ELSE PrefixedTokens(s, i + 1, prefix, stops)

\* list.flatMap(f) for a list of lists already mapped.
RECURSIVE Flatten(_)
Flatten(lists) ==
    IF lists = <<>> THEN <<>> ELSE Head(lists) \o Flatten(Tail(lists))

inferFallbackUploads(fs, userMessage, workspaceDir) ==
    IF ~hasUploadIntent(userMessage) THEN <<>>
    ELSE LET names == inferRequestedFileNames(userMessage)
             found(name) ==
                 LET direct == join(workspaceDir, name)
                     inAttachments == join(workspaceDir, "attachments/" \o name)
                 IN  (IF existsSync(fs, direct) THEN <<pathResolve(direct)>> ELSE <<>>)
                     \o (IF existsSync(fs, inAttachments)
                         THEN <<pathResolve(inAttachments)>> ELSE <<>>)
         IN  Unique(Flatten([k \in DOMAIN names |-> found(names[k])]))

filterUploadsToRequestedFileNames(uploadPaths, userMessage) ==
    LET names == inferRequestedFileNames(userMessage)
        requested == [k \in DOMAIN names |-> toLowerCase(names[k])]
    IN  IF requested = <<>> THEN <<>>
        ELSE SelectSeq(uploadPaths, LAMBDA path : matchedRequestedName(path, requested))

StripFileScheme(raw) == IF StartsWith(raw, "file://") THEN SliceFrom(raw, 8) ELSE raw

inferUploadsFromModelText(fs, text, workspaceDir) ==
    LET absWorkspace == pathResolve(workspaceDir)
        mediaMatches == PrefixedTokens(text, 1, "MEDIA:", SpaceChars)
        fileUrlMatches == PrefixedTokens(text, 1, "file://", SpaceChars)
        media == [k \in DOMAIN mediaMatches |->
                    pathResolve(StripFileScheme(trim(SliceFrom(mediaMatches[k], 7))))]
        urls == [k \in DOMAIN fileUrlMatches |->
                    pathResolve(SliceFrom(fileUrlMatches[k], 8))]
    IN  Unique(SelectSeq(media \o urls,
                         LAMBDA abs : StartsWith(abs, absWorkspace) /\ existsSync(fs, abs)))

inferMessagesFromModelText(text) ==
    LET messageMatches == PrefixedTokens(text, 1, "MESSAGE:", {"\n"})
        values == [k \in DOMAIN messageMatches |-> trim(SliceFrom(messageMatches[k], 9))]
    IN  Unique(SelectSeq(values, LAMBDA value : value # ""))

\* The uploads of the fallbacks added to those of the queue.
chooseUploadsUnion(queuedUploads, filteredRequest, filteredModel) ==
    Unique(queuedUploads \o filteredRequest \o filteredModel)

\* Lines 1005-1046: the queue's uploads, else those of the request fallback,
\* else those of the model-text fallback.
chooseUploads(queuedUploads, filteredRequest, filteredModel) ==
    IF Len(queuedUploads) > 0 THEN queuedUploads
    ELSE IF Len(filteredRequest) > 0 THEN filteredRequest
    ELSE IF Len(filteredModel) > 0 THEN filteredModel
    ELSE <<>>

\* The text given back whatever the runtime's result is.
chooseTextFromMessages(resultText, messages) ==
    IF Len(messages) > 0 THEN <<JoinWith(messages, "\n")>>
    ELSE resultText

\* Lines 1057-1059: resultText is <<>> for null, else <<the string>>.
chooseText(resultText, messages) ==
    IF (resultText = <<>> \/ resultText = <<"">>) /\ Len(messages) > 0
    THEN <<JoinWith(messages, "\n")>>
    ELSE resultText

\* What runAgent returns, from the drained queue, the strings observed on
\* assistant and user events and the result event (none: <<>>).
agentResult(fs, queued, userMessage, contentTexts, result) ==
    LET observedText == contentTexts \o result
        resultText == result
        filteredQueued == enforceUploadPolicy(fs, queued.uploads, userMessage, WorkspaceDir)
        filteredRequest ==
            enforceUploadPolicy(fs, inferFallbackUploads(fs, userMessage, WorkspaceDir),
                                userMessage, WorkspaceDir)
        inferredFromModel ==
            Unique(Flatten([k \in DOMAIN observedText |->
                              inferUploadsFromModelText(fs, observedText[k], WorkspaceDir)]))
        filteredModel ==
            enforceUploadPolicy(fs,
                filterUploadsToRequestedFileNames(inferredFromModel, userMessage),
                userMessage, WorkspaceDir)
        inferredMessages ==
            Unique(Flatten([k \in DOMAIN observedText |->
                              inferMessagesFromModelText(observedText[k])]))
        pendingMessagesOut ==
            IF Len(queued.messages) = 0 THEN inferredMessages ELSE queued.messages
    IN  [pendingUploads |-> chooseUploads(filteredQueued, filteredRequest, filteredModel),
         pendingMessages |-> pendingMessagesOut,
         text |-> chooseText(resultText, pendingMessagesOut)]

\* The file system of these runs: that of the policy's calls and a file of a
\* subdirectory of the workspace.
RunFiles == [p \in PolicyFiles \cup {"/ws/out", "/ws/out/c.txt"} |-> 1]

\* Uploads of a drained queue: normalizeQueueSnapshot keeps the resolved paths
\* that exist and start with the workspace root as a string.
QueuedPaths == {"/ws/a.pdf", "/ws/attachments/x.png", "/ws-evil/b.csv"}

QueuedMessages == {<<>>, <<"hi">>}

RunTexts == {"send a.pdf and x.png", "attach c.txt", "send that file", "thanks"}

\* Content strings of assistant and user events.
ContentTexts ==
    {"ok", "MEDIA:/ws/out/c.txt", "see file:///ws/a.pdf MEDIA:attachments/x.png",
     "MESSAGE: done \nMESSAGE:next"}

\* The result event: none or an error, or its result string.
ResultTexts == {<<>>, <<"">>, <<"Done">>, <<"MESSAGE:bye">>}

\* One run's tail: from the drain to the returned value.
RunFinish(queued, userMessage, contentTexts, result) ==
    /\ ~fin.called
    /\ fin' = [called |-> TRUE, queued |-> queued, userMessage |-> userMessage,
               contentTexts |-> contentTexts, result |-> result,
               returned |-> agentResult(RunFiles, queued, userMessage, contentTexts,
                                        result)]
    /\ UNCHANGED <<persisted, srun, slog, pcall, qvars, rvars, bvars, tvars,
                   hvars, fcall>>

FinishInit ==
    fin = [called |-> FALSE, queued |-> [uploads |-> <<>>, messages |-> <<>>],
           userMessage |-> "", contentTexts |-> <<>>, result |-> <<>>,
           returned |-> [pendingUploads |-> <<>>, pendingMessages |-> <<>>,
                         text |-> <<>>]]

FinishNext ==
    /\ ~fin.called
    /\ \E uploads \in SeqsUpTo(QueuedPaths, MaxQueued), messages \in QueuedMessages,
          userMessage \in RunTexts, contentTexts \in SeqsUpTo(ContentTexts, MaxObserved),
          result \in ResultTexts :
           RunFinish([uploads |-> uploads, messages |-> messages], userMessage,
                     contentTexts, result)

(***************************************************************************)
(* The work items of the Slack handlers (unnamed/part_000, lines 154-449): *)
(* the closure given to enqueue, its try block, its catch block.           *)
(***************************************************************************)
\* Messages handled in a run of the model.
MaxHandled == 2

\* The awaited steps of the try block at which the closure can fail, in
\* order: user, channel and workspace resolution; schedulerBridge
\* .ensureWorkspace and the settings; the thinking indicator; runAgent;
\* schedulerBridge.syncWorkspace, which catches its own errors and never
\* rejects (its requests on the bridge are the action SyncWorkspace); the
\* final update or post.  Failed downloads, uploads and posts of captured
\* messages are caught where they happen and are no step.
HandlerSteps == <<"resolve", "ensure", "thinking", "run", "sync", "final">>

\* message.threadTs of a mention: absent, or the thread it was made in.
ThreadStamps == {"", "111.1"}

\* The user who writes the DMs and the channel the mentions are made in.
Senders == {"u1"}

MentionChannels == {"c1"}

\* message.ts of the mentions.
MessageTs == "999.9"

APOLOGY == "_Something went wrong, try again_"

NotHandled ==
    [mode |-> "", threadTs |-> "", pc |-> "none", step |-> 0, failed |-> FALSE,
     apologies |-> <<>>, notifyFailed |-> FALSE, rejected |-> FALSE]

\* Where the apology of the item of a message goes: postMessage(channelId)
\* for a DM, postThreadReply(channelId, message.threadTs ?? message.ts) for
\* a mention.
apologyTarget(mode, channelId, threadTs) ==
    IF mode = "dm" THEN [channelId |-> channelId, threadTs |-> ""]
    ELSE [channelId |-> channelId,
          threadTs |-> IF threadTs = "" THEN MessageTs ELSE threadTs]

\* A catch block whose apology post is not guarded.
notifyEscapesOnFailure(postOk) == ~postOk

\* Whether a failing apology post rejects the closure: the post stands in a
\* try block of its own.
notifyEscapes(postOk) == FALSE

\* getQueue(channelId).enqueue(async () => {...}) of a handler.
HandlerSubmit(c, mode, threadTs, ws) ==
    /\ LET g == getQueue(c)
           i == Len(work) + 1
           w == Append(work, [kind |-> "resolve", ws |-> ws, inst |-> g.q,
                              chan |-> c])
       IN /\ queues' = g.queues
          /\ nInstances' = g.n
          /\ returned' = [returned EXCEPT ![c] = @ \cup {g.q}]
          /\ work' = w
          /\ SetQState(enqueue(QState, g.q, i, w))
          /\ hitem' = [hitem EXCEPT ![i] = [NotHandled EXCEPT !.mode = mode,
                                               !.threadTs = threadTs,
                                               !.pc = "try", !.step = 1]]
    /\ UNCHANGED <<inRun, runOver, rvars, bvars, tvars, svars, ecall, arun,
                   fcall>>

\* slackBot.onMessage: a DM of user u on channel c.
HandlerOnMessage(u, c) ==
    /\ Len(work) < MaxHandled
    /\ HandlerSubmit(c, "dm", "", UserWorkspace(u))

\* slackBot.onChannelMention: a mention in channel c.
HandlerOnChannelMention(c, threadTs) ==
    /\ Len(work) < MaxHandled
    /\ HandlerSubmit(c, "channel", threadTs, ChannelWorkspace(c))

\* The closure of item i is running.
Running(i) == i \in Range(started) /\ i \notin Range(settled)

\* The awaited step the closure of item i is at resolves (ok) or rejects.
\* A rejection runs the catch block up to its await: logger.error, and the
\* call that posts the apology.
HandlerStep(i, ok) ==
    /\ Running(i)
    /\ hitem[i].pc = "try"
    /\ ok \/ HandlerSteps[hitem[i].step] # "sync"
    /\ hitem' = [hitem EXCEPT ![i] =
                    IF ~ok
                    THEN [@ EXCEPT !.pc = "catch", !.failed = TRUE,
                                   !.apologies =
                                       Append(@, [to |-> apologyTarget(
                                                             hitem[i].mode,
                                                             work[i].chan,
                                                             hitem[i].threadTs),
                                                  text |-> APOLOGY])]
                    ELSE IF @.step = Len(HandlerSteps) THEN [@ EXCEPT !.pc = "done"]
                    ELSE [@ EXCEPT !.step = @ + 1]]
    /\ UNCHANGED <<qvars, rvars, bvars, tvars, svars, ecall, arun, fcall>>

\* The apology post of the catch block settles: it has succeeded (postOk),
\* or it rejects and is logged; the closure returns.
HandlerApologySettled(i, postOk) ==
    /\ Running(i)
    /\ hitem[i].pc = "catch"
    /\ hitem' = [hitem EXCEPT ![i] =
                    [@ EXCEPT !.pc = "done",
                              !.notifyFailed = ~postOk,
                              !.rejected = notifyEscapes(postOk)]]
    /\ UNCHANGED <<qvars, rvars, bvars, tvars, svars, ecall, arun, fcall>>

\* The closure of item i has returned: its promise settles and processNext
\* resumes after `await work()`.
HandlerSettle(i) ==
    /\ Running(i)
    /\ hitem[i].pc = "done"
    /\ SetQState(afterAwait(QState, work[i].inst, i, hitem[i].rejected, work))
    /\ UNCHANGED <<queues, nInstances, work, returned, inRun, runOver, rvars,
                   bvars, tvars, avars>>

HandlerInit == hitem = [i \in ItemIds |-> NotHandled]

HandlerNext ==
    \/ \E u \in Senders, c \in Channels : HandlerOnMessage(u, c)
    \/ \E c \in MentionChannels, threadTs \in ThreadStamps :
           HandlerOnChannelMention(c, threadTs)
    \/ \E i \in ItemIds, ok \in BOOLEAN : HandlerStep(i, ok)
    \/ \E i \in ItemIds, postOk \in BOOLEAN : HandlerApologySettled(i, postOk)
    \/ \E i \in ItemIds : HandlerSettle(i)

(***************************************************************************)
(* applyLlmEnvFromSettings (agent/llm-env.ts).  process.env is a function  *)
(* from the variables that are set to their values.                        *)
(***************************************************************************)
\* The variables clearProviderRoutingEnv unsets.
ProviderRoutingKeys ==
    {"CLAUDE_CODE_USE_BEDROCK", "CLAUDE_CODE_USE_VERTEX", "CLAUDE_CODE_USE_FOUNDRY",
     "ANTHROPIC_BASE_URL", "ANTHROPIC_AUTH_TOKEN"}

AnthropicKeys ==
    {"ANTHROPIC_API_KEY", "AWS_ACCESS_KEY_ID", "AWS_SECRET_ACCESS_KEY", "AWS_REGION"}

OpenAiKeys == {"OPENAI_API_KEY", "OPENAI_BASE_URL", "OPENAI_MODEL", "PAPERT_MODEL"}

\* unsetEnv(...keys)
unsetEnv(env, keys) == [k \in DOMAIN env \ keys |-> env[k]]

clearProviderRoutingEnv(env) == unsetEnv(env, ProviderRoutingKeys)

\* settings is null.
NoSettings == [isNull |-> TRUE, llm_provider |-> Missing, openai_api_key |-> Missing,
               openai_base_url |-> Missing, openai_model |-> Missing]

\* A test that looks at the api key only.
incompleteKeyOnly(settings) == Falsy(settings.openai_api_key)

\* !settings.openai_api_key || !settings.openai_base_url || !settings.openai_model
incompleteSettings(settings) ==
    \/ Falsy(settings.openai_api_key)
    \/ Falsy(settings.openai_base_url)
    \/ Falsy(settings.openai_model)

\* applyLlmEnvFromSettings(settings): process.env after the call.
applyLlmEnvFromSettings(env, settings) ==
    IF settings.isNull \/ Falsy(settings.llm_provider) THEN env
    ELSE IF settings.llm_provider # "openai" THEN env
    ELSE IF incompleteSettings(settings) THEN env
    ELSE LET e1 == unsetEnv(unsetEnv(clearProviderRoutingEnv(env), AnthropicKeys),
                            OpenAiKeys)
             e2 == MapSet(e1, "OPENAI_API_KEY", settings.openai_api_key)
             e3 == MapSet(e2, "OPENAI_BASE_URL", settings.openai_base_url)
             e4 == MapSet(e3, "OPENAI_MODEL", settings.openai_model)
         IN  MapSet(e4, "PAPERT_MODEL", settings.openai_model)

\* The environments the function is called in: nothing set, an OpenAI key,
\* an Anthropic / Bedrock configuration, everything set.
Environments ==
    {EmptyMap,
     [k \in {"OPENAI_API_KEY", "HOME"} |-> "existing"],
     [k \in {"ANTHROPIC_API_KEY", "CLAUDE_CODE_USE_BEDROCK", "AWS_ACCESS_KEY_ID",
             "ANTHROPIC_AUTH_TOKEN", "HOME"} |-> "existing"],
     [k \in ProviderRoutingKeys \cup AnthropicKeys \cup OpenAiKeys \cup {"HOME"} |->
         "existing"]}

\* The settings rows: null, or a row with each field null, empty or set.
SettingsRows ==
    {NoSettings}
    \cup [isNull : {FALSE}, llm_provider : {Missing, "", "openai", "anthropic"},
          openai_api_key : {Missing, "", "sk-db"},
          openai_base_url : {Missing, "", "https://llm.example/v1"},
          openai_model : {Missing, "", "gpt-db"}]

\* One call of applyLlmEnvFromSettings in a process with environment env.
ApplyLlmEnvFromSettings(env, settings) ==
    /\ ~ecall.called
    /\ ecall' = [called |-> TRUE, settings |-> settings, before |-> env,
                 after |-> applyLlmEnvFromSettings(env, settings)]
    /\ UNCHANGED <<qvars, rvars, bvars, tvars, svars, hitem, arun, fcall>>

EnvInit ==
    ecall = [called |-> FALSE, settings |-> NoSettings, before |-> EmptyMap,
             after |-> EmptyMap]

EnvNext ==
    /\ ~ecall.called
    /\ \E env \in Environments, settings \in SettingsRows :
           ApplyLlmEnvFromSettings(env, settings)

(***************************************************************************)
(* createUploadMcpServer (agent/upload-tool.ts, lines 45-125): the         *)
(* handlers of SendFileToChat, send_file_to_chat and message, on the       *)
(* collector's lists.                                                      *)
(***************************************************************************)
\* absPath.startsWith(absWorkspace)
withinWorkspace(absPath, absWorkspace) == StartsWith(absPath, absWorkspace)

\* queueFile(filePath) on the collector's pending list: the list afterwards
\* and the string returned.
queueFile(fs, list, filePath, workspaceDir) ==
    LET absWorkspace == pathResolve(workspaceDir)
        absPath == pathResolve(filePath)
    IN  IF ~withinWorkspace(absPath, absWorkspace)
        THEN [pending |-> list,
              result |-> "Error: file must be within your workspace " \o absWorkspace]
        ELSE IF ~existsSync(fs, absPath)
        THEN [pending |-> list, result |-> "Error: file not found at " \o absPath]
        ELSE [pending |-> Append(list, absPath),
              result |-> "File queued for upload: " \o absPath]

\* UploadCollector.collectMessage on the pendingMessages list.
collectMessage(list, message) ==
    IF trim(message) = "" THEN list ELSE Append(list, message)

\* Entries held by the collector of the in-process server at a time.
MaxPending == 2

\* input.file_path of the file tools.
ToolFilePaths ==
    {"/ws/a.pdf", "/ws/attachments/x.png", "/ws/gone.csv", "/ws-evil/b.csv",
     "/ws/../ws-evil/b.csv", "a.pdf", ""}

\* input.media of the message tool.
ToolMedia ==
    {"", " file:///ws/a.pdf ", "file:///ws-evil/b.csv", "file:///ws/gone.csv",
     "https://x.test/y.png"}

\* input.message of the message tool.
ToolMessages == {"", " hi "}

\* The handler of SendFileToChat.
SendFileToChat(file_path) ==
    /\ Len(pending) < MaxPending
    /\ pending' = queueFile(RunFiles, pending, file_path, WorkspaceDir).pending
    /\ UNCHANGED <<qfile, prod, run, quiet, nwrites, drains, pendingMessages,
                   cdrains, qvars, rvars, bvars, avars>>

\* The handler of send_file_to_chat.
SendFileToChatSnake(file_path) ==
    /\ Len(pending) < MaxPending
    /\ pending' = queueFile(RunFiles, pending, file_path, WorkspaceDir).pending
    /\ UNCHANGED <<qfile, prod, run, quiet, nwrites, drains, pendingMessages,
                   cdrains, qvars, rvars, bvars, avars>>

\* The handler of message.
MessageCompatTool(message, media) ==
    /\ Len(pending) < MaxPending
    /\ Len(pendingMessages) < MaxPending
    /\ LET text == trim(message)
           m == trim(media)
       IN  /\ pendingMessages' =
                  IF text # "" THEN collectMessage(pendingMessages, text)
                  ELSE pendingMessages
           /\ pending' =
                  IF StartsWith(m, "file://")
                  THEN queueFile(RunFiles, pending, SliceFrom(m, 8), WorkspaceDir).pending
                  ELSE pending
    /\ UNCHANGED <<qfile, prod, run, quiet, nwrites, drains, cdrains, qvars,
                   rvars, bvars, avars>>

\* The tools of the in-process server, called by the agent of one run.
McpNext ==
    \/ \E file_path \in ToolFilePaths : SendFileToChat(file_path)
    \/ \E file_path \in ToolFilePaths : SendFileToChatSnake(file_path)
    \/ \E message \in ToolMessages, media \in ToolMedia :
           MessageCompatTool(message, media)
    \/ CollectorDrain
    \/ CollectorDrainMessages

(***************************************************************************)
(* runAgent: assistant events and the incremental-delivery callback        *)
(* (agent/upload-tool.ts, lines 797-813, 847, 926-945, 1065).              *)
(***************************************************************************)
\* Assistant events in a run of the model.
MaxAssistant == 3

\* extractAssistantText on the content of an assistant message: the trimmed
\* non-empty texts of its text blocks joined by newlines; <<>> stands for
\* null.
extractAssistantText(content) ==
    LET blocks == SelectSeq(content, LAMBDA block : block.type = "text")
        texts == SelectSeq([k \in DOMAIN blocks |-> trim(blocks[k].text)],
                           LAMBDA text : text # "")
    IN  IF texts = <<>> THEN <<>> ELSE <<JoinWith(texts, "\n")>>

\* message.message.content of the assistant events.
AssistantContents ==
    {<<>>,
     <<[type |-> "text", text |-> " "]>>,
     <<[type |-> "tool_use", text |-> ""]>>,
     <<[type |-> "text", text |-> "hi"]>>,
     <<[type |-> "text", text |-> " a "], [type |-> "text", text |-> "b"]>>}

\* A flag that is set by the call, whatever comes of it.
sentAfterAnyCall(messageSent, threw) == TRUE

\* try { await params.onMessage(assistantText); messageSent = true; }
\* catch (err) { logger.warn(...) }: messageSent afterwards.
sentAfter(messageSent, threw) == IF threw THEN messageSent ELSE TRUE

\* runAgent is called, with or without an onMessage callback.
AssistantRunStart(onMessage) ==
    /\ arun.pc = "idle"
    /\ arun' = [arun EXCEPT !.pc = "running", !.onMessage = onMessage]
    /\ UNCHANGED <<qvars, rvars, bvars, tvars, svars, hitem, ecall, fcall>>

\* An assistant event: onMessage is called with its text, if it has any and
\* a callback was given, and the run awaits the promise of that call; it
\* takes no further event and does not return until the promise settles.
AssistantEvent(content) ==
    /\ arun.pc = "running"
    /\ arun.events < MaxAssistant
    /\ LET assistantText == extractAssistantText(content)
       IN  IF assistantText # <<>> /\ arun.onMessage
           THEN arun' = [arun EXCEPT
                            !.pc = "awaiting",
                            !.events = @ + 1,
                            !.calls = Append(@, [text |-> assistantText[1],
                                                 outcome |-> "pending"])]
           ELSE arun' = [arun EXCEPT !.events = @ + 1]
    /\ UNCHANGED <<qvars, rvars, bvars, tvars, svars, hitem, ecall, fcall>>

\* The promise of the pending onMessage call settles: it resolves, or it
\* rejects (threw) and the catch block logs a warning; the loop goes on.
OnMessageSettled(threw) ==
    /\ arun.pc = "awaiting"
    /\ arun' = [arun EXCEPT
                  !.pc = "running",
                  !.calls[Len(arun.calls)].outcome =
                      IF threw THEN "rejected" ELSE "resolved",
                  !.messageSent = sentAfter(@, threw),
                  !.warned = IF threw THEN @ + 1 ELSE @]
    /\ UNCHANGED <<qvars, rvars, bvars, tvars, svars, hitem, ecall, fcall>>

\* The stream ends and runAgent returns its AgentResult.
AssistantRunReturn ==
    /\ arun.pc = "running"
    /\ arun' = [arun EXCEPT !.pc = "returned",
                            !.result = [messageSent |-> arun.messageSent]]
    /\ UNCHANGED <<qvars, rvars, bvars, tvars, svars, hitem, ecall, fcall>>

AssistantInit ==
    arun = [pc |-> "idle", onMessage |-> FALSE, events |-> 0, calls |-> <<>>,
            messageSent |-> FALSE, warned |-> 0,
            result |-> [messageSent |-> FALSE]]

AssistantNext ==
    \/ \E onMessage \in BOOLEAN : AssistantRunStart(onMessage)
    \/ \E content \in AssistantContents : AssistantEvent(content)
    \/ \E threw \in BOOLEAN : OnMessageSettled(threw)
    \/ AssistantRunReturn

(***************************************************************************)
(* formatFinishedEventText under bounded inputs.                           *)
(***************************************************************************)
\* The event objects of finished events: every field present or absent, the
\* texts also empty, and a status the function does not name.
FinishedEvents ==
    {SchedulerEvent("finished", j, st, su, er) :
        j \in Jobs \cup {Missing},
        st \in {Missing, "ok", "skipped", "error", "cancelled"},
        su \in {Missing, "", "report ready"},
        er \in {Missing, "", "boom"}}

\* One call of formatFinishedEventText (the function keeps nothing).
FormatFinishedEventText(event) ==
    /\ fcall' = [called |-> TRUE, event |-> event,
                 text |-> formatFinishedEventText(event)]
    /\ UNCHANGED <<qvars, rvars, bvars, tvars, svars, hvars>>

FormatInit ==
    fcall = [called |-> FALSE,
             event |-> SchedulerEvent("finished", Missing, Missing, Missing,
                                      Missing),
             text |-> <<>>]

FormatNext ==
    /\ ~fcall.called
    /\ \E event \in FinishedEvents : FormatFinishedEventText(event)

(***************************************************************************)
(* Specifications.                                                         *)
(***************************************************************************)
Init ==
    /\ QueueInit /\ RoutesInit /\ BridgeInit /\ ToolInit
    /\ SessionInit /\ PolicyInit /\ FinishInit
    /\ HandlerInit /\ EnvInit /\ AssistantInit /\ FormatInit

Next ==
    QueueNext \/ RoutesNext \/ BridgeNext \/ BridgeEventNext \/ ToolNext
    \/ DrainNext \/ SessionNext \/ PolicyNext \/ FinishNext \/ HandlerNext
    \/ EnvNext \/ McpNext \/ BridgeFrameNext \/ AssistantNext
    \/ CorruptNext \/ FormatNext \/ RunNext \/ BridgeSyncNext

\* The queues and the handlers feeding them.
QueueSpec == Init /\ [][QueueNext]_vars

\* The handlers' work items and the runAgent calls they make.
RunSpec == Init /\ [][RunNext]_vars

\* ChannelQueue under arbitrary closures (the handlers' work items are
\* closures that resolve), where every promise that can settle does settle.
QueueLiveNext ==
    \/ \E c \in Channels, k \in Kinds : EnqueueWork(c, k)
    \/ \E i \in ItemIds : Settle(i)

QueueLiveSpec ==
    Init /\ [][QueueLiveNext]_vars /\ \A i \in ItemIds : WF_vars(Settle(i))

\* One SchedulerRoutes object under arbitrary calls.
RoutesSpec == Init /\ [][RoutesNext]_vars

\* The scheduler bridge: ensureWorkspace calls of two workspaces, the ends
\* of their sessions and stopAll, in every interleaving.
BridgeSpec == Init /\ [][BridgeNext]_vars

\* The scheduler bridge: syncWorkspace on the registered sessions.
BridgeSyncSpec == Init /\ [][BridgeSyncNext]_vars

\* The scheduler bridge: the messages of the sessions of one workspace.
BridgeEventSpec == Init /\ [][BridgeEventNext]_vars

\* The tool-output queue file of a workspace and its producers.
ToolSpec == Init /\ [][ToolNext]_vars

\* Draining: the queue file and an UploadCollector.
DrainSpec == Init /\ [][DrainNext]_vars

\* runAgent: the session id stored for a workspace over successive runs.
SessionSpec == Init /\ [][SessionNext]_vars

\* enforceUploadPolicy over lists of candidates, texts and file systems.
PolicySpec == Init /\ [][PolicyNext]_vars

\* runAgent from the drain of the queue to the value it returns.
FinishSpec == Init /\ [][FinishNext]_vars

\* The work items of the Slack handlers, from enqueue to settlement.
HandlerSpec == Init /\ [][HandlerNext]_vars

\* applyLlmEnvFromSettings on a process environment.
EnvSpec == Init /\ [][EnvNext]_vars

\* The in-process upload tools and their collector.
McpSpec == Init /\ [][McpNext]_vars

\* The bridge's event loop on the messages it ignores, binds and unbinds.
BridgeFrameSpec == Init /\ [][BridgeFrameNext]_vars

\* runAgent's incremental delivery of assistant text.
AssistantSpec == Init /\ [][AssistantNext]_vars

\* The queue file when its content is not a queue.
CorruptSpec == Init /\ [][CorruptNext]_vars

\* formatFinishedEventText on finished events.
FormatSpec == Init /\ [][FormatNext]_vars

Spec == Init /\ [][Next]_vars


(***************************************************************************)
(* Properties of ChannelQueue / QueueManager.                              *)
(***************************************************************************)
Enqueued == 1 .. Len(work)

ItemsOf(q) == {i \in Enqueued : work[i].inst = q}

\* The ids enqueued on instance q, in enqueue order.
EnqueuedOn(q) == SelectSeq([k \in Enqueued |-> k], LAMBDA i : work[i].inst = q)

Failed(i) == work[i].kind \in {"reject", "throw"}

Occurrences(s, x) == Cardinality({k \in 1 .. Len(s) : s[k] = x})

\* C1: on every ChannelQueue at most one work item is executing (called
\* and not yet settled) at any instant.
C1_AtMostOneExecuting ==
    \A q \in Inst : Cardinality(Executing(q)) <= 1

\* An item is executing while another one of the same queue waits, after
\* an earlier one has settled.
C1_Witness ==
    \E q \in Inst :
        /\ Cardinality(Executing(q)) = 1
        /\ queue[q] # <<>>
        /\ \E j \in ItemsOf(q) : j \in Range(settled)

\* C2: the items started on a queue are a prefix of the items enqueued on
\* it (enqueue order, none skipped, none twice), and an item is started
\* only once every earlier item of the queue has settled.
C2_StartedIsPrefixOfEnqueued ==
    \A q \in Inst :
        /\ IsPrefix(Restrict(started, ItemsOf(q)), EnqueuedOn(q))
        /\ \A i \in ItemsOf(q) \cap Range(started) :
               \A j \in ItemsOf(q) : j < i => j \in Range(settled)

\* Two items of one queue have been started and a third is still waiting.
C2_Witness ==
    \E q \in Inst :
        /\ Len(Restrict(started, ItemsOf(q))) >= 2
        /\ queue[q] # <<>>

\* C3: no two runAgent calls of the DM / channel-mention handlers that use
\* the same workspace directory are in flight at the same time.
C3_OneRunPerWorkspace ==
    \A i \in inRun : \A j \in inRun : i # j => work[i].ws # work[j].ws

\* C4: a work item that throws or rejects is caught (logged once) inside
\* the queue, is not started again, the processing flag is released and
\* the next item of the queue is started.
C4_FailureDoesNotStopQueue ==
    /\ errors = Cardinality({i \in Range(settled) : Failed(i)})
    /\ \A i \in Range(settled) :
           Failed(i) =>
               LET q == work[i].inst
               IN /\ Occurrences(started, i) = 1
                  /\ Occurrences(settled, i) = 1
                  /\ i \notin Range(queue[q])
                  /\ processing[q] <=> Executing(q) # {}
                  /\ queue[q] # <<>> => Executing(q) # {}

\* An item failed and a later item of the same queue was started, in both
\* ways of failing.
C4_Witness ==
    \E i \in Range(settled) : \E k \in Range(settled) :
        /\ work[i].kind = "reject" /\ work[k].kind = "throw"
        /\ \E j \in ItemsOf(work[i].inst) : j > i /\ j \in Range(started)
        /\ \E j \in ItemsOf(work[k].inst) : j > k /\ j \in Range(started)

\* An earlier item of the same queue never settles.
BehindHang(i) ==
    \E j \in ItemsOf(work[i].inst) : j < i /\ work[j].kind = "hang"

\* C5: every enqueued item is eventually started provided the items before
\* it on its queue settle, and no item waits in an idle queue.
C5_EventuallyStarted ==
    /\ \A i \in ItemIds :
           (i \in Enqueued /\ ~BehindHang(i)) ~> (i \in Range(started))
    /\ [](\A q \in Inst : queue[q] # <<>> => processing[q] /\ Executing(q) # {})

\* An item that had an asynchronous item before it on its queue has been
\* started, and another item is waiting behind a running one.
C5_Witness ==
    \E i \in Range(started) :
        /\ \E j \in ItemsOf(work[i].inst) :
               j < i /\ work[j].kind \in {"resolve", "reject"}
        /\ queue[work[i].inst] # <<>>

\* C6: items of different channel ids run independently: an item whose own
\* queue holds no never-settling item before it completes, whatever hangs
\* on the queues of other channels; distinct channels have distinct queues.
C6_ChannelsIndependent ==
    /\ \A i \in ItemIds :
           (i \in Enqueued /\ work[i].kind # "hang" /\ ~BehindHang(i))
               ~> (i \in Range(settled))
    /\ [](\A i \in Enqueued :
              /\ work[i].inst = queues[work[i].chan]
              /\ \A j \in Enqueued :
                     work[i].chan # work[j].chan => work[i].inst # work[j].inst)

\* An item of one channel was enqueued after a never-settling item of the
\* other channel had been started, and has settled.
C6_Witness ==
    \E j \in Range(started) : \E i \in Range(settled) :
        /\ work[j].kind = "hang"
        /\ j < i
        /\ work[i].chan # work[j].chan
        /\ work[i].kind = "resolve"

\* C7: getQueue returns the same ChannelQueue for every call with the same
\* channel id, constructs it on the first call only, and returns distinct
\* instances for distinct channel ids.
C7_StableQueuePerChannel ==
    /\ \A c \in Channels :
           /\ Cardinality(returned[c]) <= 1
           /\ c \in DOMAIN queues <=> returned[c] # {}
           /\ c \in DOMAIN queues => returned[c] = {queues[c]}
    /\ \A a \in DOMAIN queues : \A b \in DOMAIN queues :
           a # b => queues[a] # queues[b]
    /\ nInstances = Cardinality(DOMAIN queues)

\* Both channels have a queue, and one of them was asked for several times.
C7_Witness ==
    /\ DOMAIN queues = Channels
    /\ \E i \in Enqueued : \E j \in Enqueued : i # j /\ work[i].chan = work[j].chan


(***************************************************************************)
(* Properties of SchedulerRoutes, stated on the history of calls.          *)
(***************************************************************************)
\* The route given to the last setLatestRoute among the first n calls.
RECURSIVE LatestAfter(_)
LatestAfter(n) ==
    IF n = 0 THEN Undefined
    ELSE IF calls[n].op = "set" THEN calls[n].route
    ELSE LatestAfter(n - 1)

\* Call p is a bindJob(j) made while a latest route existed.
BindsAt(p, j) ==
    /\ calls[p].op = "bind" /\ calls[p].job = j
    /\ LatestAfter(p - 1) # Undefined

RemovedSince(p, j) ==
    \E k \in (p + 1) .. Len(calls) : calls[k].op = "remove" /\ calls[k].job = j

\* The calls that leave j bound now.
LiveBinds(j) ==
    {p \in 1 .. Len(calls) : BindsAt(p, j) /\ ~RemovedSince(p, j)}

Max(S) == CHOOSE x \in S : \A y \in S : y <= x

\* C8: after setLatestRoute(R1) and bindJob(J), any number of later
\* setLatestRoute calls leave resolve(J) equal to R1.
C8_LaterRoutesKeepBinding ==
    \A j \in Jobs : \A p \in 1 .. Len(calls) :
        (/\ BindsAt(p, j)
         /\ \A k \in (p + 1) .. Len(calls) : calls[k].op = "set")
            => resolve(j) = LatestAfter(p - 1)

\* bindJob(J) under R1 was followed only by setLatestRoute calls, the last
\* of them with another route.
C8_Witness ==
    \E j \in Jobs : \E p \in 1 .. Len(calls) :
        /\ BindsAt(p, j)
        /\ p + 2 <= Len(calls)
        /\ \A k \in (p + 1) .. Len(calls) : calls[k].op = "set"
        /\ latestRoute # LatestAfter(p - 1)

\* C9: resolve(J) is J's binding when J is bound (bound while a latest
\* route existed and not removed since), else the latest route, else
\* nothing; a bindJob before any setLatestRoute creates no binding.
C9_ResolveByCases ==
    \A j \in Jobs :
        /\ j \in DOMAIN routesByJobId <=> LiveBinds(j) # {}
        /\ latestRoute = LatestAfter(Len(calls))
        /\ resolve(j) =
               IF LiveBinds(j) # {} THEN LatestAfter(Max(LiveBinds(j)) - 1)
               ELSE LatestAfter(Len(calls))

\* A job was bound, then removed while the latest route had changed, and
\* another job is still bound to an older route: resolve gives the latest
\* route for the first and the binding for the second.
C9_Witness ==
    \E j \in Jobs : \E k \in Jobs :
        /\ \E p \in 1 .. Len(calls) : BindsAt(p, j) /\ RemovedSince(p, j)
        /\ LiveBinds(j) = {}
        /\ LiveBinds(k) # {}
        /\ resolve(j) = latestRoute
        /\ resolve(k) # latestRoute

\* C10: once job J is bound its bound route stays the same until
\* removeJob(J), whatever setLatestRoute and bindJob calls follow.
C10_BindingCapturedOnce ==
    [][\A j \in Jobs :
           (j \in DOMAIN routesByJobId /\ j \in DOMAIN routesByJobId')
               => routesByJobId'[j] = routesByJobId[j]]_vars

(***************************************************************************)
(* Properties of SchedulerBridge.                                          *)
(***************************************************************************)
OpenSessions(d) == {s \in Sessions : sess[s].dir = d /\ sess[s].open}

\* C11: every workspace directory has at most one open external scheduler
\* session at any time, whatever the interleaving of the ensureWorkspace
\* calls for it.
C11_OneOpenSessionPerWorkspace ==
    \A d \in Dirs : Cardinality(OpenSessions(d)) <= 1

\* C12: ensureWorkspace(d, r) on a directory whose session is registered
\* starts no session and sends no control request; it sets the latest route
\* of the registered state to r when r is given, and leaves the latest route
\* and the job bindings as they are when it is not.
C12_ExistingOnlyUpdatesRoute ==
    [][\A d \in Dirs, r \in BridgeRoutes \cup {Undefined} :
          (d \in DOMAIN workspaces /\ EnsureWorkspace(d, r)) =>
              /\ Len(sess') = Len(sess)
              /\ workspaces' = workspaces
              /\ \A s \in Sessions :
                     /\ sess'[s].control = sess[s].control
                     /\ sess'[s].phase = sess[s].phase
                     /\ sess'[s].open = sess[s].open
                     /\ sess'[s].routesByJobId = sess[s].routesByJobId
                     /\ s # workspaces[d] =>
                            sess'[s].latestRoute = sess[s].latestRoute
              /\ sess'[workspaces[d]].latestRoute =
                     IF r # Undefined THEN r
                     ELSE sess[workspaces[d]].latestRoute]_vars

\* A registered state holds a binding made under one route and a latest
\* route set by a later ensureWorkspace call.
C12_Witness ==
    \E d \in DOMAIN workspaces :
        LET st == sess[workspaces[d]]
        IN  /\ "job-1" \in DOMAIN st.routesByJobId
            /\ st.latestRoute # st.routesByJobId["job-1"]
            /\ st.latestRoute # st.arg

\* The consumer loop of session s hands its next message to handleMessage
\* in this step.
Handles(s) ==
    /\ sess[s].phase = "live"
    /\ stream[s] # <<>>
    /\ handled' = Append(handled, Head(stream[s]))

\* Message id is a `finished` scheduler event that names its job.
IsFinished(id) ==
    /\ events[id].msg.type = "system"
    /\ events[id].msg.subtype = "scheduler_event"
    /\ events[id].msg.action = "finished"
    /\ ~Falsy(events[id].msg.jobId)

DeliveriesOf(id) == {k \in DOMAIN deliveries : deliveries[k].ev = id}

\* C13: handling a `finished` event with a job id for which resolve returns
\* a route makes exactly one onDelivery call, with that route and a text
\* that contains the job id and the event's summary; no event is ever
\* delivered twice.
C13_FinishedDeliveredOnce ==
    [][/\ \A s \in Sessions :
            LET id == Head(stream[s])
                d == sess[s].dir
                route == resolveOn(sess[workspaces[d]], events[id].msg.jobId)
            IN  (/\ Handles(s)
                 /\ IsFinished(id)
                 /\ d \in DOMAIN workspaces
                 /\ route # Undefined)
                => /\ Len(deliveries') = Len(deliveries) + 1
                   /\ SubSeq(deliveries', 1, Len(deliveries)) = deliveries
                   /\ Last(deliveries').ev = id
                   /\ Last(deliveries').route = route
                   /\ events[id].msg.jobId \in Range(Last(deliveries').text)
                   /\ ~Falsy(events[id].msg.summary) =>
                          events[id].msg.summary
                              \in Range(Last(deliveries').text)
       /\ \A k \in DOMAIN deliveries' :
              Cardinality({n \in DOMAIN deliveries' :
                              deliveries'[n].ev = deliveries'[k].ev}) = 1
      ]_vars

\* A finished event was delivered to the route bound to its job, which is
\* not the latest route of the workspace any more.
C13_Witness ==
    \E k \in DOMAIN deliveries :
        LET dl == deliveries[k]
            j == events[dl.ev].msg.jobId
        IN  /\ dl.ev \in completed
            /\ dl.dir \in DOMAIN workspaces
            /\ j \in DOMAIN sess[workspaces[dl.dir]].routesByJobId
            /\ sess[workspaces[dl.dir]].routesByJobId[j] = dl.route
            /\ sess[workspaces[dl.dir]].latestRoute # dl.route
            /\ j \in Range(dl.text)
            /\ "report ready" \in Range(dl.text)

NoRouteWarnings(id) ==
    {k \in DOMAIN blog : blog[k].msg = "no-route" /\ blog[k].ref = id}

\* C14: handling a `finished` event of a job that has no binding, in a
\* workspace without a latest route, calls onDelivery zero times and logs
\* one warning; the event is not delivered at any later time either.
C14_NoRouteDropped ==
    [][/\ \A s \in Sessions :
            LET id == Head(stream[s])
                d == sess[s].dir
            IN  (/\ Handles(s)
                 /\ IsFinished(id)
                 /\ d \in DOMAIN workspaces
                 /\ events[id].msg.jobId
                        \notin DOMAIN sess[workspaces[d]].routesByJobId
                 /\ sess[workspaces[d]].latestRoute = Undefined)
                => /\ deliveries' = deliveries
                   /\ blog' = Append(blog, LogEntry("no-route", d, id))
                   /\ id \in completed'
       /\ \A k \in DOMAIN blog' :
              blog'[k].msg = "no-route" =>
                  /\ \A n \in DOMAIN deliveries' :
                         deliveries'[n].ev # blog'[k].ref
                  /\ \A n \in DOMAIN blog' :
                         (blog'[n].msg = "no-route"
                          /\ blog'[n].ref = blog'[k].ref) => n = k
      ]_vars

\* A finished event was dropped for want of a route; the workspace has a
\* route since, a later event of the same job was delivered, the dropped
\* one was not.
C14_Witness ==
    \E id \in DOMAIN events :
        /\ NoRouteWarnings(id) # {}
        /\ DeliveriesOf(id) = {}
        /\ LatestOf(sess[events[id].sid].dir) # Undefined
        /\ \E k \in DOMAIN deliveries :
               /\ deliveries[k].ev > id
               /\ events[deliveries[k].ev].msg.jobId = events[id].msg.jobId

EventsOf(s) == {id \in DOMAIN events : events[id].sid = s}

\* The messages of session s in the order of its stream.
StreamOrder(s) ==
    SelectSeq([k \in DOMAIN events |-> k], LAMBDA id : events[id].sid = s)

\* C15: the messages of a session are handled in the order of its stream,
\* none skipped, and the handling of one (the wait for onDelivery included)
\* is over before the next one is handled; deliveries follow the same order.
C15_HandledInStreamOrder ==
    \A s \in Sessions :
        LET h == Restrict(handled, EventsOf(s))
        IN  /\ IsPrefix(h, StreamOrder(s))
            /\ \A k \in 1 .. (Len(h) - 1) : h[k] \in completed
            /\ \A k, n \in DOMAIN deliveries :
                   (/\ k < n
                    /\ deliveries[k].ev \in EventsOf(s)
                    /\ deliveries[n].ev \in EventsOf(s))
                   => deliveries[k].ev < deliveries[n].ev

\* Two messages of one session have been handled, the first of them with a
\* delivery that had to be awaited.
C15_Witness ==
    \E s \in Sessions :
        LET h == Restrict(handled, EventsOf(s))
        IN  /\ Len(h) >= 2
            /\ DeliveriesOf(h[1]) # {}
            /\ h[1] \in completed

\* Messages about job j emitted before message id by the sessions of
\* directory d, with the given action.
Before(id, d, j, action) ==
    {a \in DOMAIN events :
        /\ a < id
        /\ sess[events[a].sid].dir = d
        /\ events[a].msg.type = "system"
        /\ events[a].msg.subtype = "scheduler_event"
        /\ events[a].msg.action = action
        /\ events[a].msg.jobId = j}

\* The `added` messages that registered job j for the last time before
\* message id: those after the last `removed` of j.
Registrations(id, d, j) ==
    {a \in Before(id, d, j, "added") :
        \A x \in Before(id, d, j, "removed") : x < a}

\* C16: a delivered `finished` event of job J goes to the route that was
\* the workspace's latest route when J's `added` event was emitted (since
\* the last removal of J), whenever there was one.
C16_DeliveredToRegistrationRoute ==
    \A k \in DOMAIN deliveries :
        LET id == deliveries[k].ev
            regs == Registrations(id, deliveries[k].dir,
                                  events[id].msg.jobId)
            known == {events[a].latest : a \in regs} \ {Undefined}
        IN  known # {} => deliveries[k].route \in known

\* C17: once stopAll() has resolved, no session that was started by an
\* ensureWorkspace call made before stopAll was called is open, and no such
\* session has an entry in the workspace map.
C17_StopAllLeavesNothing ==
    stopAllPc = "done" =>
        /\ \A s \in Sessions : sess[s].preStop => ~sess[s].open
        /\ \A d \in DOMAIN workspaces : ~sess[workspaces[d]].preStop

\* The consumer loop of session s reaches the end of its finally block in
\* this step.
StreamOver(s) == sess[s].phase = "live" /\ sess'[s].phase = "ended"

\* The step logs the 'stopped unexpectedly' warning.
WarnsUnexpected ==
    /\ Len(blog') > Len(blog)
    /\ Last(blog').msg = "stopped-unexpectedly"

\* C18: when the stream of a session ends or fails, its directory has no
\* entry in the map afterwards, and the 'stopped unexpectedly' warning is
\* logged exactly when stopAll had not called stop() on the session.
C18_StreamEndClearsAndWarns ==
    [][\A s \in Sessions :
          StreamOver(s) =>
              /\ sess[s].dir \notin DOMAIN workspaces'
              /\ WarnsUnexpected <=> s \notin stopping]_vars

(***************************************************************************)
(* Properties of the tool-output queue and UploadCollector.                *)
(***************************************************************************)
\* The entries a drain returned.
Drained(dr) ==
    {dr.uploads[k].wid : k \in DOMAIN dr.uploads}
    \cup {dr.messages[k].wid : k \in DOMAIN dr.messages}

\* C19: no entry that was in the queue file when runAgent was called is
\* returned by the drain of that run.
C19_StaleNotDrained ==
    \A k \in DOMAIN drains : Drained(drains[k]) \cap drains[k].stale = {}

\* Call k of runAgent takes a step from pc `from` to pc `to`.
RunStep(k, from, to) ==
    k \in DOMAIN run /\ run[k].pc = from /\ run'[k].pc = to

\* C20: a drain leaves the persisted queue with empty uploads and messages
\* lists; as long as no producer has written since the drain opened the
\* file, the file holds no entry and a drain returns empty lists, whether
\* the drained queue held entries or not.  UploadCollector.drain and
\* drainMessages return what was collected and leave their lists empty.
C20_DrainClears ==
    [][/\ \A k \in DOMAIN run :
            /\ (RunStep(k, "clearing", "done") /\ quiet) => qfile' = EmptyQueue
            /\ (RunStep(k, "closed", "read") /\ quiet)
                   => run'[k].read = NoEntries
       /\ quiet' => qfile' \in {EmptyQueue, Truncated}
       /\ \A k \in DOMAIN drains' :
              drains'[k].quiet =>
                  drains'[k].uploads = <<>> /\ drains'[k].messages = <<>>
       /\ CollectorDrain => (pending' = <<>> /\ cdrains'.files = pending)
       /\ CollectorDrainMessages =>
              (pendingMessages' = <<>>
               /\ cdrains'.messages = pendingMessages)
      ]_vars

\* A run drained an entry, the next run drained the untouched queue and got
\* nothing; the collector returned files and messages and is
\* empty.
C20_Witness ==
    /\ DOMAIN drains = {1, 2}
    /\ drains[1].uploads # <<>> \/ drains[1].messages # <<>>
    /\ drains[2].quiet
    /\ drains[2].uploads = <<>> /\ drains[2].messages = <<>>
    /\ quiet
    /\ qfile = EmptyQueue
    /\ cdrains.files # <<>> /\ pending = <<>>
    /\ cdrains.messages # <<>> /\ pendingMessages = <<>>

(***************************************************************************)
(* The upload-selection policy.                                            *)
(***************************************************************************)
\* The resolved candidates of the call that are inside the workspace, on
\* disk and not under a reserved subpath.
Reserved(p) ==
    \E prefix \in BLOCKED_UPLOAD_PREFIXES :
        LET dir == WorkspaceDir \o "/" \o prefix
        IN  p = dir \/ StartsWith(p, dir \o "/")

StrictlyInside(p) ==
    /\ p = pathResolve(p)
    /\ p # WorkspaceDir
    /\ StartsWith(p, WorkspaceDir \o "/")

ValidUpload(fs, p) == StrictlyInside(p) /\ p \in DOMAIN fs /\ ~Reserved(p)

ValidCandidates ==
    {p \in {pathResolve(pcall.uploadPaths[k]) : k \in DOMAIN pcall.uploadPaths} :
        ValidUpload(pcall.fs, p)}

Accepted == {pcall.result[k] : k \in DOMAIN pcall.result}

\* C23: every path enforceUploadPolicy returns resolves strictly inside the
\* workspace root, exists on disk and is not under .papert/tools or
\* .papert/.papert-claw-runtime, whatever the candidates, the text and the
\* source are.
C23_AcceptedAreValid ==
    pcall.called => \A p \in Accepted : ValidUpload(pcall.fs, p)

\* A call that accepted a file although a path of a sibling directory whose
\* name starts like the workspace's was among the candidates.
C23_Witness ==
    /\ pcall.called
    /\ Accepted # {}
    /\ \E k \in DOMAIN pcall.uploadPaths :
           pcall.uploadPaths[k] = "/ws/../ws-evil/b.csv"
    /\ pcall.userMessage = "attach b.csv"

\* C24: when the text names files, a candidate is accepted only if its base
\* name is, up to case, one of the names.
C24_OnlyNamedAccepted ==
    (pcall.called /\ pcall.requested # <<>>) =>
        \A p \in Accepted :
            \E k \in DOMAIN pcall.requested :
                toLowerCase(basename(p)) = pcall.requested[k]

IsSessionFile(p) == toLowerCase(basename(p)) = "session.json"

UnderAttachments(p) == StartsWith(p, WorkspaceDir \o "/attachments/")

\* C25: in send-everything mode every valid candidate is accepted, except
\* session.json when a candidate under attachments/ is present.
C25_AllAccepted ==
    (pcall.called /\ pcall.autoSelectAll) =>
        Accepted =
            IF \E p \in ValidCandidates : UnderAttachments(p)
            THEN {p \in ValidCandidates : ~IsSessionFile(p)}
            ELSE ValidCandidates

Tier(p) == IF UnderAttachments(p) THEN 3 ELSE IF IsSessionFile(p) THEN 1 ELSE 2

\* p comes before q in the order of the send-latest choice.
Below(fs, p, q) ==
    \/ Tier(p) < Tier(q)
    \/ /\ Tier(p) = Tier(q)
       /\ \/ fs[p] < fs[q]
          \/ (fs[p] = fs[q] /\ StringLess(p, q))

\* C26: in send-latest mode with a valid candidate, exactly one candidate is
\* accepted, the greatest by tier, then modification time, then path; the
\* order of the list plays no part.
C26_LatestIsMaximum ==
    (pcall.called /\ pcall.autoSelectLatest /\ ~pcall.autoSelectAll
       /\ ValidCandidates # {}) =>
        /\ Len(pcall.result) = 1
        /\ pcall.result[1] \in ValidCandidates
        /\ \A q \in ValidCandidates \ {pcall.result[1]} :
               Below(pcall.fs, q, pcall.result[1])

\* A send-latest call on two files of one tier and one age, the greater path
\* listed first.
C26_Witness ==
    /\ pcall.called
    /\ pcall.userMessage = "send that file"
    /\ pcall.uploadPaths = <<"/ws/attachments/y.png", "/ws/attachments/x.png">>
    /\ pcall.fs["/ws/attachments/x.png"] = pcall.fs["/ws/attachments/y.png"]
    /\ pcall.result = <<"/ws/attachments/y.png">>

\* C27: a text with no file name and neither signal gets nothing, whatever
\* the candidates are.
C27_NoSignalNothing ==
    (pcall.called /\ pcall.requested = <<>> /\ ~pcall.autoSelectLatest
       /\ ~pcall.autoSelectAll) =>
        pcall.result = <<>>

\* Such a call with a valid candidate.
C27_Witness ==
    /\ pcall.called
    /\ pcall.userMessage = "resend that file"
    /\ ValidCandidates # {}
    /\ pcall.result = <<>>

(***************************************************************************)
(* runAgent: the persisted session id.                                     *)
(***************************************************************************)
Completed(k) == k \in DOMAIN slog /\ slog[k].state = "completed"

Degraded(k) == slog[k].missingFileSendTools

Resumed(k) == slog[k].existingSessionId # NoSession

\* Call j is the first call made after call k has returned.
NextAfter(k, j) ==
    /\ j \in DOMAIN slog
    /\ k \in slog[j].before
    /\ \A i \in 1 .. (j - 1) : k \notin slog[i].before

\* Call j read the store after call k had written to it and before any
\* other call wrote to it: it read what call k left.
ReadsAfter(k, j) ==
    /\ j \in DOMAIN slog
    /\ slog[k].order > 0
    /\ slog[j].writes = slog[k].order

C22_ReportedIdResumedNext ==
    \A k \in DOMAIN slog :
        (Completed(k) /\ ~Degraded(k) /\ slog[k].reported # "") =>
            /\ slog[k].atReturn = slog[k].reported
            /\ \A j \in DOMAIN slog :
                   NextAfter(k, j) => slog[j].resume = slog[k].reported


\* What runAgent returned.
Returned == fin.returned

\* The drained uploads that the policy accepts.
QueuedAccepted ==
    enforceUploadPolicy(RunFiles, fin.queued.uploads, fin.userMessage, WorkspaceDir)

\* The files named by the user that exist in the root or in attachments/, as
\* the policy accepts them.
RequestAccepted ==
    enforceUploadPolicy(RunFiles,
                        inferFallbackUploads(RunFiles, fin.userMessage, WorkspaceDir),
                        fin.userMessage, WorkspaceDir)

\* All that the run observed: the content strings, then the result.
Observed == fin.contentTexts \o fin.result

\* The files referenced in the observed text that bear a named file's name,
\* as the policy accepts them.
ModelAccepted ==
    enforceUploadPolicy(RunFiles,
        filterUploadsToRequestedFileNames(
            Unique(Flatten([k \in DOMAIN Observed |->
                inferUploadsFromModelText(RunFiles, Observed[k], WorkspaceDir)])),
            fin.userMessage),
        fin.userMessage, WorkspaceDir)

\* C28: the uploads a run returns are the first non-empty of: the queued
\* uploads the policy accepts, the accepted files named in the request, the
\* accepted files referenced in the observed text; a fallback is used only
\* when everything before it is empty, and the sets are never united.
C28_FirstNonEmptySource ==
    fin.called =>
        /\ QueuedAccepted # <<>> => Returned.pendingUploads = QueuedAccepted
        /\ (QueuedAccepted = <<>> /\ RequestAccepted # <<>>)
               => Returned.pendingUploads = RequestAccepted
        /\ (QueuedAccepted = <<>> /\ RequestAccepted = <<>>)
               => Returned.pendingUploads = ModelAccepted

\* A run with nothing accepted from the queue whose request names files that
\* exist and whose observed text references a file too: the uploads are those
\* of the request, which differ from those of the text.
C28_Witness ==
    /\ fin.called
    /\ QueuedAccepted = <<>>
    /\ RequestAccepted # <<>>
    /\ ModelAccepted # <<>>
    /\ ModelAccepted # RequestAccepted
    /\ Returned.pendingUploads = RequestAccepted

\* The messages found after MESSAGE: in the observed text.
InferredMessages ==
    Unique(Flatten([k \in DOMAIN Observed |-> inferMessagesFromModelText(Observed[k])]))

\* No message was queued and the observed text holds MESSAGE: tokens.
OnlyInferredMessages ==
    fin.called /\ fin.queued.messages = <<>> /\ InferredMessages # <<>>

\* The runtime gave no result text.
NoResultText == fin.result = <<>> \/ fin.result = <<"">>

\* C29 as stated: with no queued message and MESSAGE: tokens in the observed
\* text, the text a run returns is the inferred messages.
C29_TextIsInferred ==
    OnlyInferredMessages => Returned.text = <<JoinWith(InferredMessages, "\n")>>

\* C29: with no queued message and MESSAGE: tokens in the observed text, the
\* inferred messages are the messages a run returns; they are also its text,
\* joined by newlines, when the runtime gave no result text, and otherwise the
\* text is the runtime's result.
C29_InferredMessagesSurfaced ==
    OnlyInferredMessages =>
        /\ Returned.pendingMessages = InferredMessages
        /\ NoResultText => Returned.text = <<JoinWith(InferredMessages, "\n")>>
        /\ ~NoResultText => Returned.text = fin.result

\* A run with a result text and two inferred messages: both are returned as
\* messages and the text is the result.
C29_Witness ==
    /\ OnlyInferredMessages
    /\ ~NoResultText
    /\ Len(InferredMessages) = 2
    /\ Returned.pendingMessages = InferredMessages
    /\ Returned.text = fin.result


\* The entries of a drain, uploads then messages.
DrainedEntries(dr) == dr.uploads \o dr.messages

\* C30: every upload and message a run drains was written by the session of
\* that run: no other producer writes to the queue file between the run's
\* reset and its drain.
C30_DrainedByOwnSession ==
    \A k \in DOMAIN drains :
        \A j \in DOMAIN DrainedEntries(drains[k]) :
            /\ DrainedEntries(drains[k])[j].by = "session"
            /\ DrainedEntries(drains[k])[j].run = drains[k].run


(***************************************************************************)
(* Properties of the handlers' work items.                                 *)
(***************************************************************************)
\* The closure of item i has returned.
HandlerReturned(i) == hitem[i].pc = "done"

\* C31: a work item of a handler that failed at a step of its try block has
\* made one apology post, to the channel of a DM or to the thread of a
\* mention, from the moment it failed; one that did not fail has made none;
\* no work item rejects, whether the apology post succeeded or not (a post
\* is known to have failed only once the closure has returned), so
\* processNext logs no error; and the
\* queue of a channel holds no waiting item while none is running.
C31_FailureApologisedQueueAdvances ==
    /\ \A i \in DOMAIN work :
           /\ ~hitem[i].rejected
           /\ hitem[i].failed
                  => hitem[i].apologies =
                         <<[to |-> [channelId |-> work[i].chan,
                                    threadTs |->
                                        IF hitem[i].mode = "dm" THEN ""
                                        ELSE IF hitem[i].threadTs # ""
                                             THEN hitem[i].threadTs
                                             ELSE MessageTs],
                            text |-> APOLOGY]>>
           /\ ~hitem[i].failed => hitem[i].apologies = <<>>
           /\ hitem[i].notifyFailed => (hitem[i].failed /\ HandlerReturned(i))
    /\ errors = 0
    /\ \A q \in Inst : Executing(q) = {} => (queue[q] = <<>> /\ ~processing[q])

\* A mention failed, its apology post failed too, the item has settled and
\* the next item of the same channel has been called.
C31_Witness ==
    /\ Len(work) = 2
    /\ work[1].chan = work[2].chan
    /\ hitem[1].mode = "channel"
    /\ hitem[1].failed /\ hitem[1].notifyFailed
    /\ Len(hitem[1].apologies) = 1
    /\ 1 \in Range(settled)
    /\ 2 \in Range(started)


(***************************************************************************)
(* Properties of applyLlmEnvFromSettings.                                  *)
(***************************************************************************)
\* The settings of the call are null, name no provider, name another
\* provider than openai, or lack an OpenAI field.
Unusable(settings) ==
    \/ settings.isNull
    \/ settings.llm_provider \in {Missing, ""}
    \/ settings.llm_provider # "openai"
    \/ \E f \in {settings.openai_api_key, settings.openai_base_url,
                 settings.openai_model} : f \in {Missing, ""}

\* C32: a call with null settings, no provider, a provider other than
\* openai, or a missing api key, base URL or model leaves every environment
\* variable as it was.
C32_UnusableSettingsKeepEnv ==
    (ecall.called /\ Unusable(ecall.settings)) => ecall.after = ecall.before

\* A call with provider openai and a key but no model, in an environment
\* that holds variables the complete call would unset: nothing has changed.
C32_Witness ==
    /\ ecall.called
    /\ ecall.settings.llm_provider = "openai"
    /\ ecall.settings.openai_api_key = "sk-db"
    /\ ecall.settings.openai_model = Missing
    /\ "ANTHROPIC_API_KEY" \in DOMAIN ecall.before
    /\ ecall.after = ecall.before


(***************************************************************************)
(* Properties of the in-process upload tools.                              *)
(***************************************************************************)
\* C33: every path the file-send handlers have added to the collector lies
\* inside the workspace directory (it is the directory or below it) and
\* exists; a path of a sibling directory whose name starts with the
\* workspace's name is not added.
C33_CollectedInsideWorkspace ==
    \A k \in DOMAIN pending :
        /\ \/ pending[k] = WorkspaceDir
           \/ SubSeq(pending[k], 1, Len(WorkspaceDir) + 1) = WorkspaceDir \o "/"
        /\ pending[k] \in DOMAIN RunFiles


(***************************************************************************)
(* Frame of the bridge's event loop.                                       *)
(***************************************************************************)
\* The event is a scheduler event with an action and a job id.
WellFormed(m) ==
    /\ m.type = "system" /\ m.subtype = "scheduler_event"
    /\ m.action \notin {Missing, ""}
    /\ m.jobId \notin {Missing, ""}

\* C34: a handleMessage call on an `added` event changes nothing but the
\* binding of the event's job, which becomes the workspace's latest route
\* (if there is one); on a `removed` event nothing but that job's binding,
\* which is deleted; on a message that is no scheduler event, an event
\* without an action or a job id, or an event of another action than added,
\* removed and finished, no binding changes; none of these calls changes a
\* latest route or makes a delivery call.
C34_OnlyOwnBindingChanges ==
    [][handled' # handled =>
         LET id == Last(handled')
             m == events[id].msg
             s == events[id].sid
             old == sess[s].routesByJobId
             new == sess'[s].routesByJobId
         IN  /\ \A k \in Sessions : sess'[k].latestRoute = sess[k].latestRoute
             /\ \A k \in Sessions \ {s} :
                    sess'[k].routesByJobId = sess[k].routesByJobId
             /\ ~(WellFormed(m) /\ m.action = "finished")
                    => deliveries' = deliveries
             /\ IF WellFormed(m) /\ m.action = "added"
                      /\ sess[s].latestRoute # Undefined
                THEN /\ DOMAIN new = DOMAIN old \cup {m.jobId}
                     /\ new[m.jobId] = sess[s].latestRoute
                     /\ \A j \in DOMAIN old \ {m.jobId} : new[j] = old[j]
                ELSE IF WellFormed(m) /\ m.action = "removed"
                THEN /\ DOMAIN new = DOMAIN old \ {m.jobId}
                     /\ \A j \in DOMAIN new : new[j] = old[j]
                ELSE new = old
      ]_vars

\* An `added` event has bound its job, then an event without an action was
\* handled: the binding is as it was and nothing was delivered.
C34_Witness ==
    /\ Len(handled) = 2
    /\ events[handled[1]].msg.action = "added"
    /\ events[handled[2]].msg.subtype = "scheduler_event"
    /\ events[handled[2]].msg.action = Missing
    /\ DOMAIN sess[1].routesByJobId = {events[handled[1]].msg.jobId}
    /\ deliveries = <<>>


\* The awaited onDelivery call of session s has rejected in this step.
Rejected(s) == sess[s].busy # 0 /\ sess'[s].busy = 0 /\ blog' # blog

\* C35: when the delivery callback of a finished event rejects, the error is
\* logged and nothing else happens: no further delivery call is made for
\* the event, the workspace's session stays registered and live, the stream
\* keeps its messages and the loop is free to take the next one.
C35_RejectedDeliveryLoggedLoopGoesOn ==
    [][\A s \in Sessions :
         Rejected(s) =>
             /\ blog' = Append(blog, [msg |-> "delivery-failed",
                                      dir |-> sess[s].dir, ref |-> sess[s].busy])
             /\ deliveries' = deliveries
             /\ workspaces' = workspaces
             /\ sess'[s].phase = sess[s].phase
             /\ stream' = stream
             /\ sess[s].busy \in completed'
             /\ ConsumerFree(sess'[s])
      ]_vars

\* The delivery of a finished event was rejected and logged, it was made
\* once, the session is still registered and has handled a later message.
C35_Witness ==
    \E k \in DOMAIN blog :
        /\ blog[k].msg = "delivery-failed"
        /\ Cardinality({j \in DOMAIN deliveries : deliveries[j].ev = blog[k].ref}) = 1
        /\ blog[k].dir \in DOMAIN workspaces
        /\ Len(handled) = 2
        /\ handled[1] = blog[k].ref
        /\ handled[2] \in completed


(***************************************************************************)
(* Properties of the incremental delivery.                                 *)
(***************************************************************************)
\* C36: the messageSent a run returns is true exactly when one of its
\* onMessage calls returned without throwing; onMessage is called with
\* non-empty text only; every throwing call is logged, and the run goes on
\* to its result after it; a run that has returned has no onMessage call
\* pending, and at most the last call of a run is pending.
C36_MessageSentIffDelivered ==
    /\ \A k \in DOMAIN arun.calls : arun.calls[k].text # ""
    /\ arun.warned =
           Cardinality({k \in DOMAIN arun.calls :
                           arun.calls[k].outcome = "rejected"})
    /\ \A k \in DOMAIN arun.calls :
           arun.calls[k].outcome = "pending"
               => (k = Len(arun.calls) /\ arun.pc = "awaiting")
    /\ arun.messageSent
           <=> \E k \in DOMAIN arun.calls : arun.calls[k].outcome = "resolved"
    /\ arun.pc = "returned" =>
           (arun.result.messageSent
                <=> \E k \in DOMAIN arun.calls :
                        arun.calls[k].outcome = "resolved")

\* A run whose first onMessage call threw and whose second returned has
\* ended with messageSent true.
C36_Witness ==
    /\ arun.pc = "returned"
    /\ Len(arun.calls) = 2
    /\ arun.calls[1].outcome = "rejected"
    /\ arun.calls[2].outcome = "resolved"
    /\ arun.warned = 1
    /\ arun.result.messageSent

\* The drain of call k reads the queue file.
DrainReads(k) == RunStep(k, "closed", "read")

\* The drain of call k returns what it read.
DrainReturns(k) == RunStep(k, "clearing", "done")

\* What every drain does with the file, whatever it read: its reset
\* truncates the file and writes the empty queue over it, and the drain
\* returns what it read; the file is the empty queue then, unless it was
\* written or removed again after the reset had opened it.
DrainOverwrites(k) ==
    /\ RunStep(k, "read", "clearing") => qfile' = Truncated
    /\ DrainReturns(k) =>
         /\ (~run[k].orphan /\ quiet) => qfile' = EmptyQueue
         /\ DOMAIN drains' = DOMAIN drains \cup {k}
         /\ drains'[k].uploads = run[k].read.uploads
         /\ drains'[k].messages = run[k].read.messages

\* C37: a drain that finds the queue file missing, not valid JSON or holding
\* a value of the wrong shape (a value that is not an object, or an object
\* with a field that is not an array) returns empty uploads and messages
\* lists, and overwrites the file with the empty queue.
C37_WrongShapeDrainsEmpty ==
    [][\A k \in DOMAIN run :
          /\ (DrainReads(k) /\ qfile.kind # "ok") =>
               /\ run'[k].read.uploads = <<>>
               /\ run'[k].read.messages = <<>>
          /\ DrainOverwrites(k)]_vars

\* C37, as the code has it: a drain that finds the queue file missing,
\* empty, not valid JSON or holding a value that is not an object returns
\* empty uploads and messages lists; of an object, a field that is not an
\* array comes back as an empty list and the other field comes back
\* normalised, entries included; and every drain overwrites the file with
\* the empty queue.
C37_CorruptFileDrainsEmpty ==
    [][\A k \in DOMAIN run :
          /\ DrainReads(k) =>
               /\ qfile.kind \in {"missing", "empty", "invalid", "scalar"} =>
                      /\ run'[k].read.uploads = <<>>
                      /\ run'[k].read.messages = <<>>
               /\ qfile.kind = "badUploads" =>
                      /\ run'[k].read.uploads = <<>>
                      /\ run'[k].read.messages =
                             normalizeQueueSnapshot(
                                 [qfile EXCEPT !.kind = "ok"]).messages
               /\ qfile.kind = "badMessages" =>
                      /\ run'[k].read.messages = <<>>
                      /\ run'[k].read.uploads =
                             normalizeQueueSnapshot(
                                 [qfile EXCEPT !.kind = "ok"]).uploads
          /\ DrainOverwrites(k)]_vars

\* A drain has read an object whose uploads field is not an array and whose
\* messages field holds an entry: it holds no upload and that message.
C37_Witness ==
    \E k \in DOMAIN run :
        /\ run[k].pc = "read"
        /\ qfile.kind = "badUploads"
        /\ qfile.uploads # <<>>
        /\ qfile.messages # <<>>
        /\ run[k].read.uploads = <<>>
        /\ run[k].read.messages # <<>>

\* The text of the call has no file name and matches both signals.
BothSignals ==
    /\ pcall.called
    /\ pcall.requested = <<>>
    /\ shouldAutoSelectLatestUpload(pcall.userMessage)
    /\ shouldAutoSelectAllUploads(pcall.userMessage)

\* The send-everything selection among the valid candidates: those under
\* attachments/ when there is one, otherwise those that are not
\* session.json, otherwise all of them.
EverythingSelection ==
    IF \E p \in ValidCandidates : UnderAttachments(p)
    THEN {p \in ValidCandidates : UnderAttachments(p)}
    ELSE IF \E p \in ValidCandidates : ~IsSessionFile(p)
    THEN {p \in ValidCandidates : ~IsSessionFile(p)}
    ELSE ValidCandidates

\* C38: when the text names no file and matches both the send-everything and
\* the send-latest signals, the call returns the send-everything selection,
\* whatever the modification times are: the send-latest choice of a single
\* newest file is not made.
C38_EverythingBeforeLatest ==
    BothSignals =>
        /\ Accepted = EverythingSelection
        /\ Len(pcall.result) = Cardinality(EverythingSelection)

\* A call with both signals on two attachments of which one is newer: both
\* are returned.
C38_Witness ==
    /\ BothSignals
    /\ pcall.uploadPaths = <<"/ws/attachments/x.png", "/ws/attachments/y.png">>
    /\ pcall.fs["/ws/attachments/x.png"] > pcall.fs["/ws/attachments/y.png"]
    /\ pcall.result = <<"/ws/attachments/x.png", "/ws/attachments/y.png">>

\* The parts of the text returned by the latest formatFinishedEventText call.
ShownId == fcall.text[2]
ShownForm == fcall.text[3]
ShownDetail == fcall.text[4]

\* The status of the event, ok when it has none.
EventStatus ==
    IF fcall.event.status = Missing THEN "ok" ELSE fcall.event.status

\* The event carries neither a summary nor an error text.
NoDetails == Falsy(fcall.event.summary) /\ Falsy(fcall.event.error)

\* The job id shown and the text shown for an event without details.
IdAndDefaults ==
    /\ Len(fcall.text) = 4
    /\ fcall.text[1] = "Scheduled job "
    /\ ShownId = (IF fcall.event.jobId = Missing THEN "unknown"
                  ELSE fcall.event.jobId)
    /\ NoDetails => ShownDetail = "completed"

\* C39 as stated: ok or no status gives the plain form with the summary,
\* skipped the 'was skipped' form, error the 'failed' form whose detail is
\* the error text of the event; a missing job id reads 'unknown' and missing
\* details read 'completed'.
C39_DetailByStatus ==
    fcall.called =>
        /\ IdAndDefaults
        /\ EventStatus = "ok" =>
               /\ ShownForm = ": "
               /\ ~Falsy(fcall.event.summary) =>
                      ShownDetail = fcall.event.summary
        /\ EventStatus = "skipped" => ShownForm = " was skipped: "
        /\ EventStatus = "error" =>
               /\ ShownForm = " failed: "
               /\ ~Falsy(fcall.event.error) => ShownDetail = fcall.event.error

\* C39, amended: the form follows the status (plain for ok or no status,
\* 'was skipped' for skipped, 'failed' for every other status) and the
\* detail does not: in every form it is the summary when the event has one,
\* otherwise the error text when it has one, otherwise 'completed'; a missing
\* job id reads 'unknown'.
C39_FormByStatusDetailByField ==
    fcall.called =>
        /\ IdAndDefaults
        /\ ShownForm = (IF EventStatus = "ok" THEN ": "
                        ELSE IF EventStatus = "skipped" THEN " was skipped: "
                        ELSE " failed: ")
        /\ ShownDetail = (IF ~Falsy(fcall.event.summary)
                          THEN fcall.event.summary
                          ELSE IF ~Falsy(fcall.event.error)
                          THEN fcall.event.error
                          ELSE "completed")

\* An error event that carries a summary and an error text: the failed form
\* shows the summary.
C39_Witness ==
    /\ fcall.called
    /\ fcall.event.status = "error"
    /\ fcall.event.summary = "report ready"
    /\ fcall.event.error = "boom"
    /\ fcall.text = <<"Scheduled job ", fcall.event.jobId, " failed: ",
                      "report ready">>

\* The ensureWorkspace call that started session s has returned or thrown.
EnsureOver(s) == sess[s].phase \in {"live", "failed", "ended"}

\* C40: every external scheduler session that is open once the
\* ensureWorkspace call that started it is over has the entry of its
\* directory in the workspace map, and that entry is its own state: no open
\* session is left outside the map, and none has lost its entry to the
\* stream end or the registration of another session.
C40_OpenSessionsRegistered ==
    \A s \in Sessions :
        (sess[s].open /\ EnsureOver(s)) =>
            /\ sess[s].dir \in DOMAIN workspaces
            /\ workspaces[sess[s].dir] = s

=============================================================================
